---- MODULE Spec2Model ----
(***************************************************************************)
(* Verification model of the zentity liveness and OCR services:            *)
(*   apps/liveness/app/challenge_engine.py  (ChallengeSession, the session  *)
(*                                           store, batch mode)             *)
(*   apps/liveness/app/blink_detection.py   (BlinkDetector)                 *)
(*   apps/liveness/app/head_pose.py         (HeadPoseDetector)              *)
(*   apps/ocr/src/ocr_service/services/validators.py                        *)
(*   apps/ocr/src/ocr_service/services/document_detector.py                 *)
(*                                                                         *)
(* Numbers: EAR values are in thousandths (0.21 is 210); yaw and pitch are *)
(* in ten-thousandths (0.10 is 1000), so that round(x, 3) is modelled.     *)
(***************************************************************************)
EXTENDS Integers, Sequences, FiniteSets, TLC

VARIABLES
    session,      \* the ChallengeSession object under test
    call,         \* arguments of the last complete_challenge call
    ret,          \* dict returned by the last complete_challenge call
    gen_in,       \* arguments of the ChallengeSession constructor call
    gen_out,      \* outcome of that constructor call
    blink,        \* the process-wide BlinkDetector (_blink_detector)
    blink_ret,    \* dict returned by the last check_blink_from_base64 call
    blink_hist,   \* the frames the BlinkDetector has processed, oldest first
    head,         \* the process-wide HeadPoseDetector (_head_pose_detector)
    head_ret,     \* dict returned by the last check_head_pose_from_base64 call
    head_hist,    \* the frames the HeadPoseDetector has processed, oldest first
    caller,       \* the verification session the last tracker request was made for
    batch_ret,    \* dict returned by the last validate_multi_challenge_batch call
    sessions,     \* the module-level _sessions dict: session_id -> ChallengeSession
    now,          \* time.time(), in seconds
    created,      \* how many session ids secrets.token_hex has handed to the store
    store_call,   \* the last call made on the session store
    store_ret,    \* what that call returned
    ocr_in,       \* arguments of the OCR-service function under test
    ocr_out       \* what that function returned

sessionVars == <<session, call, ret>>
genVars == <<gen_in, gen_out>>
blinkVars == <<blink, blink_ret, blink_hist>>
headVars == <<head, head_ret, head_hist>>
batchVars == <<batch_ret>>
storeVars == <<sessions, now, created, store_call, store_ret>>
ocrVars == <<ocr_in, ocr_out>>
vars == <<session, call, ret, gen_in, gen_out, blink, blink_ret, blink_hist,
          head, head_ret, head_hist, caller, batch_ret,
          sessions, now, created, store_call, store_ret, ocr_in, ocr_out>>

(***************************************************************************)
(* Bounds of the model                                                     *)
(***************************************************************************)
\* num_challenges arguments range over 0..MaxNumChallengesArg
MaxNumChallengesArg == 5
\* a tracker processes at most MaxFrames frames in one behaviour
MaxFrames == 4
\* a batch holds at most MaxBatch entries
MaxBatch == 2
\* the session store is handed at most MaxSessions session ids in one behaviour
MaxSessions == 2
\* an OCR text is made of at most MaxChunks pieces
MaxChunks == 3
\* fields_extracted arguments range over 0..MaxFields (and one far above)
MaxFields == 5

(***************************************************************************)
(* challenge_engine.py: ChallengeType and CHALLENGE_INSTRUCTIONS            *)
(***************************************************************************)
SMILE == "smile"
BLINK == "blink"
TURN_LEFT == "turn_left"
TURN_RIGHT == "turn_right"

\* list(ChallengeType): the enumeration in definition order
ChallengeTypeList == <<SMILE, BLINK, TURN_LEFT, TURN_RIGHT>>

ChallengeType == {ChallengeTypeList[i] : i \in 1..Len(ChallengeTypeList)}

CHALLENGE_INSTRUCTIONS ==
    [c \in ChallengeType |->
        CASE c = SMILE -> [title |-> "Smile", instruction |-> "Please smile!",
                           icon |-> "smile", timeout_seconds |-> 10]
          [] c = BLINK -> [title |-> "Blink", instruction |-> "Please blink your eyes",
                           icon |-> "eye", timeout_seconds |-> 8]
          [] c = TURN_LEFT -> [title |-> "Turn Left",
                               instruction |-> "Turn your head to the left",
                               icon |-> "arrow-left", timeout_seconds |-> 8]
          [] c = TURN_RIGHT -> [title |-> "Turn Right",
                                instruction |-> "Turn your head to the right",
                                icon |-> "arrow-right", timeout_seconds |-> 8]]

(***************************************************************************)
(* Helpers on sequences                                                    *)
(***************************************************************************)
Range(s) == {s[i] : i \in 1..Len(s)}

\* [c for c in s if c not in excluded]
Without(s, excluded) == SelectSeq(s, LAMBDA c : c \notin excluded)

Min(a, b) == IF a < b THEN a ELSE b
Max(a, b) == IF a > b THEN a ELSE b

(***************************************************************************)
(* ChallengeSession.__init__ / _generate_challenges                         *)
(***************************************************************************)
\* self.num_challenges = max(2, min(4, num_challenges))
ClampNumChallenges(num_challenges) == Max(2, Min(4, num_challenges))

\* available after the exclusion and the "reset to all if too many excluded" step
AvailableIgnoringExclude(n, exclude) == ChallengeTypeList
Available(n, exclude) ==
    LET filtered == IF exclude # {} THEN Without(ChallengeTypeList, exclude)
                                    ELSE ChallengeTypeList
    IN  IF Len(filtered) < n THEN ChallengeTypeList ELSE filtered

\* [h for h in head_turns if h in available]: the argument of random.choice
HeadTurnChoices(available) ==
    SelectSeq(<<TURN_LEFT, TURN_RIGHT>>, LAMBDA h : h \in Range(available))

\* random.choice of an empty list raises IndexError
GenerateRaises(n, exclude, require_head_turn) ==
    require_head_turn /\ HeadTurnChoices(Available(n, exclude)) = <<>>

\* random.sample(population, k): every list of k elements at distinct positions
Sample(population, k) ==
    {[i \in 1..k |-> population[p[i]]] :
        p \in {q \in [1..k -> 1..Len(population)] :
                 \A i, j \in 1..k : q[i] = q[j] => i = j}}

\* random.shuffle(s): every reordering of the list
Shuffle(s) ==
    {[i \in 1..Len(s) |-> s[p[i]]] :
        p \in {q \in [1..Len(s) -> 1..Len(s)] :
                 \A i, j \in 1..Len(s) : q[i] = q[j] => i = j}}

\* available = [c for c in available if c != head_turn]
RemoveChosenNot(available, head_turn) == available
RemoveChosen(available, head_turn) == Without(available, {head_turn})

\* the pairs <<challenges, available>> after the "if require_head_turn" block
AfterHeadTurn(available, require_head_turn) ==
    IF require_head_turn
    THEN {<< <<h>>, RemoveChosen(available, h) >> : h \in Range(HeadTurnChoices(available))}
    ELSE {<< <<>>, available >>}

\* the "fill remaining slots" block
FillRemaining(n, challenges, available) ==
    LET remaining == n - Len(challenges)
    IN  IF remaining > 0
        THEN {challenges \o s : s \in Sample(available, Min(remaining, Len(available)))}
        ELSE {challenges}

\* every list _generate_challenges may return (random.choice, random.sample and
\* random.shuffle are nondeterministic choices); n is self.num_challenges.
\* Empty when random.choice raises.
GenerateChallenges(n, exclude, require_head_turn) ==
    LET filled == UNION {FillRemaining(n, p[1], p[2]) :
                           p \in AfterHeadTurn(Available(n, exclude), require_head_turn)}
    IN  UNION {Shuffle(c) : c \in filled}

\* the object __init__ leaves behind, for one generated list
NewSession(n, challenges) ==
    [session_id |-> "s1",
     created_at |-> 0,
     num_challenges |-> n,
     challenges |-> challenges,
     current_index |-> 0,
     completed_challenges |-> <<>>,
     is_complete |-> FALSE,
     is_passed |-> FALSE]

\* the arguments the constructor is called with
NumChallengesArgs == 0..MaxNumChallengesArg
ExcludeArgs == SUBSET ChallengeType
ConstructorArgs ==
    [num_challenges : NumChallengesArgs, exclude_challenges : ExcludeArgs,
     require_head_turn : BOOLEAN]

\* every session a constructor call with these arguments can produce
ConstructedSessions(a) ==
    LET n == ClampNumChallenges(a.num_challenges)
    IN  {NewSession(n, c) :
            c \in GenerateChallenges(n, a.exclude_challenges, a.require_head_turn)}

(***************************************************************************)
(* ChallengeSession.get_current_challenge / complete_challenge              *)
(***************************************************************************)
None == "None"

get_current_challenge(s) ==
    IF s.current_index >= Len(s.challenges)
    THEN [challenge_type |-> None]
    ELSE LET challenge_type == s.challenges[s.current_index + 1]
             instructions == CHALLENGE_INSTRUCTIONS[challenge_type]
         IN  [challenge_type |-> challenge_type,
              index |-> s.current_index,
              total |-> Len(s.challenges),
              title |-> instructions.title,
              instruction |-> instructions.instruction,
              icon |-> instructions.icon,
              timeout_seconds |-> instructions.timeout_seconds]

\* if self.current_index >= len(self.challenges): return {"success": False, ...}
RejectCompleteButLog(s, challenge_type, passed, metadata) ==
    [session |-> [s EXCEPT !.completed_challenges =
                     Append(@, [challenge_type |-> challenge_type, passed |-> passed,
                                completed_at |-> 0, metadata |-> metadata]),
                               !.is_passed = @ /\ passed],
     ret |-> [success |-> FALSE, error |-> "Session already complete"]]
RejectComplete(s, challenge_type, passed, metadata) ==
    [session |-> s,
     ret |-> [success |-> FALSE, error |-> "Session already complete"]]

\* if challenge_type != expected.value
IsUnexpectedNever(challenge_type, expected) == FALSE
IsUnexpected(challenge_type, expected) == challenge_type # expected

\* all(c["passed"] for c in self.completed_challenges)
AllPassedLast(completed_challenges) ==
    completed_challenges[Len(completed_challenges)].passed
AllPassed(completed_challenges) ==
    \A i \in 1..Len(completed_challenges) : completed_challenges[i].passed

\* metadata or {}
EmptyDict == "{}"
MetadataOrEmpty(metadata) == IF metadata = None THEN EmptyDict ELSE metadata

\* self.completed_challenges.append({...})
RecordOnly(completed_challenges, entry) == <<entry>>
RecordCompletion(completed_challenges, entry) == Append(completed_challenges, entry)

\* self.current_index += 1
NextIndexSkip(current_index) == current_index + 2
NextIndex(current_index) == current_index + 1

\* if self.current_index >= len(self.challenges), after the increment
ReachedEndEarly(current_index, challenges) == current_index + 1 >= Len(challenges)
ReachedEnd(current_index, challenges) == current_index >= Len(challenges)

\* self.is_passed after the call: assigned only inside the "if" above
PassedSoFar(done, log, is_passed) == AllPassed(log)
PassedAfter(done, log, is_passed) == IF done THEN AllPassed(log) ELSE is_passed

\* the session after the call and the dict the call returns
complete_challenge(s, challenge_type, passed, metadata) ==
    IF s.current_index >= Len(s.challenges)
    THEN RejectComplete(s, challenge_type, passed, metadata)
    ELSE
    LET expected == s.challenges[s.current_index + 1]
    IN  IF IsUnexpected(challenge_type, expected)
        THEN [session |-> s,
              ret |-> [success |-> FALSE, error |-> "Expected challenge",
                       expected |-> expected, got |-> challenge_type]]
        ELSE
        LET log == RecordCompletion(s.completed_challenges,
                          [challenge_type |-> challenge_type, passed |-> passed,
                           completed_at |-> 0, metadata |-> MetadataOrEmpty(metadata)])
            index == NextIndex(s.current_index)
            done == ReachedEnd(index, s.challenges)
            s2 == [s EXCEPT !.completed_challenges = log,
                            !.current_index = index,
                            !.is_complete = IF done THEN TRUE ELSE @,
                            !.is_passed = PassedAfter(done, log, @)]
        IN  [session |-> s2,
             ret |-> [success |-> TRUE,
                      passed |-> passed,
                      session_complete |-> s2.is_complete,
                      session_passed |-> IF s2.is_complete THEN s2.is_passed ELSE None,
                      next_challenge |-> get_current_challenge(s2)]]

\* the challenge_type strings a caller may send: the four types and an unknown one
ChallengeTypeArgs == ChallengeType \cup {"wink"}
MetadataArgs == {None, "scores"}

\* the call and return values before any call was made
NoCall == [challenge_type |-> None, passed |-> FALSE, metadata |-> None]
NoRet == [success |-> FALSE, error |-> "no call made"]

(***************************************************************************)
(* challenge_engine.py: the session store (_sessions) and its functions     *)
(***************************************************************************)
\* _sessions: dict[str, ChallengeSession] = {}
EmptyStore == [sid \in {} |-> None]

\* ChallengeSession.to_dict
to_dict(s) ==
    [session_id |-> s.session_id,
     created_at |-> s.created_at,
     challenges |-> s.challenges,
     current_index |-> s.current_index,
     completed_challenges |-> s.completed_challenges,
     is_complete |-> s.is_complete,
     is_passed |-> s.is_passed,
     current_challenge |-> get_current_challenge(s)]

\* exclude = [ChallengeType(c) for c in exclude_challenges if c in [valid values]]
FilterExclude(exclude_challenges) == exclude_challenges \cap ChallengeType

\* cleanup_age = time.time() - 600
cleanup_age(t) == t - 600

\* expired = [sid for sid, s in _sessions.items() if s.created_at < cleanup_age]
expired(store, t) == {sid \in DOMAIN store : store[sid].created_at < cleanup_age(t)}

\* for sid in expired: del _sessions[sid]
DeleteExpired(store, t) == [sid \in DOMAIN store \ expired(store, t) |-> store[sid]]

\* _sessions[session.session_id] = session
StoreSession(store, s) ==
    [sid \in DOMAIN store \cup {s.session_id} |->
        IF sid = s.session_id THEN s ELSE store[sid]]

\* the sessions ChallengeSession(...) can construct at time t with the fresh id
SessionsCreatedAt(a, session_id, t) ==
    {[s EXCEPT !.session_id = session_id, !.created_at = t] :
        s \in ConstructedSessions(
                 [a EXCEPT !.exclude_challenges = FilterExclude(a.exclude_challenges)])}

\* the constructor raises inside create_challenge_session (nothing catches it)
CreateRaises(a) ==
    GenerateRaises(ClampNumChallenges(a.num_challenges),
                   FilterExclude(a.exclude_challenges), a.require_head_turn)

\* the store and the returned dict after create_challenge_session stored s at time t
create_challenge_session(store, s, t) ==
    [sessions |-> DeleteExpired(StoreSession(store, s), t),
     ret |-> to_dict(s)]

\* get_session: _sessions.get(session_id), an Optional[ChallengeSession]
get_session(store, session_id) ==
    IF session_id \in DOMAIN store
    THEN [found |-> TRUE, session |-> store[session_id]]
    ELSE [found |-> FALSE]

\* the dict complete_session_challenge returns for a session id it does not find
SessionNotFoundAccepted == [success |-> TRUE, error |-> "Session not found or expired"]
SessionNotFound == [success |-> FALSE, error |-> "Session not found or expired"]

\* the store and the returned dict after complete_session_challenge
complete_session_challenge(store, session_id, challenge_type, passed, metadata) ==
    IF session_id \notin DOMAIN store
    THEN [sessions |-> store, ret |-> SessionNotFound]
    ELSE LET r == complete_challenge(store[session_id], challenge_type, passed, metadata)
         IN  [sessions |-> [store EXCEPT ![session_id] = r.session],
              ret |-> r.ret]

\* the session ids a caller may send: every id handed out, and one never handed out
SessionIdArgs == 1..(MaxSessions + 1)
\* the requests create_challenge_session is called with in the store model
StoreConstructorArgs ==
    [num_challenges : {2}, exclude_challenges : {{TURN_LEFT, TURN_RIGHT, "wink"}},
     require_head_turn : BOOLEAN]
\* the challenge_type strings sent to the store: both types its sessions hold
StoreChallengeTypeArgs == {SMILE, BLINK}
\* the instants at which the clock is read
ClockInstants == {0, 600, 601}

(***************************************************************************)
(* Images.  An image is what the excluded collaborators make of it:        *)
(*   present   the batch entry carries an image at all                     *)
(*   decodes   decode_base64_image returns (it raises otherwise)           *)
(*   detect    "face": landmarks found; "none": no face;                    *)
(*             "raises": the detector or landmarker raises                  *)
(*   left_ear, right_ear   calculate_ear of each eye, in thousandths        *)
(*   yaw, pitch            calculate_head_yaw / _pitch, in ten-thousandths  *)
(*   happy     the 'happy' emotion score, 0..100; -1: the analysis failed   *)
(***************************************************************************)
Image(decodes, detect, left_ear, right_ear, yaw, pitch, happy) ==
    [present |-> TRUE, decodes |-> decodes, detect |-> detect,
     left_ear |-> left_ear, right_ear |-> right_ear,
     yaw |-> yaw, pitch |-> pitch, happy |-> happy]

MissingImage == [Image(FALSE, "none", 0, 0, 0, 0, 0) EXCEPT !.present = FALSE]
Undecodable == Image(FALSE, "none", 0, 0, 0, 0, 0)
NoFaceImage == Image(TRUE, "none", 0, 0, 0, 0, -1)
DetectorRaises == Image(TRUE, "raises", 0, 0, 0, 0, -1)

\* frames that differ in the eyes: open, closed, one eye closed (average above
\* the threshold), average exactly 0.21, and a closed-eye smile
EyeImages ==
    {Image(TRUE, "face", 300, 300, 0, 0, 10),
     Image(TRUE, "face", 150, 150, 0, 0, 10),
     Image(TRUE, "face", 100, 100, 0, 0, 80),
     Image(TRUE, "face", 140, 300, 0, 0, 10),
     Image(TRUE, "face", 200, 220, 0, 0, 10)}

\* frames that differ in the head pose: forward, yaw 0.2 either way, yaw
\* exactly at 0.10 and 0.15, yaw 0.1504 and 0.1496 (which round to 0.15), pitch 0.3
PoseImages ==
    {Image(TRUE, "face", 300, 300, 0, 0, 30),
     Image(TRUE, "face", 300, 300, 2000, 0, 10),
     Image(TRUE, "face", 300, 300, -2000, 0, 10),
     Image(TRUE, "face", 300, 300, 1000, 0, 10),
     Image(TRUE, "face", 300, 300, -1504, 3000, 10),
     Image(TRUE, "face", 300, 300, 1496, 0, 10),
     Image(TRUE, "face", 300, 300, 0, 3000, 10)}

FailingImages == {Undecodable, NoFaceImage, DetectorRaises}

\* the verification sessions that stream frames concurrently
Callers == {"sessionA", "sessionB"}

(***************************************************************************)
(* blink_detection.py: BlinkDetector                                        *)
(***************************************************************************)
EAR_BLINK_THRESHOLD == 210
CONSECUTIVE_FRAMES_FOR_BLINK == 2

\* BlinkDetector.__init__ / reset: the state fields
NewBlinkDetector ==
    [blink_count |-> 0, eye_closed_frames |-> 0, was_eye_closed |-> FALSE,
     previous_ear |-> None]

BlinkReset(d) ==
    [d EXCEPT !.blink_count = 0, !.eye_closed_frames = 0, !.was_eye_closed = FALSE,
              !.previous_ear = None]

\* calculate_average_ear: (left_ear + right_ear) / 2.0
AverageEar(image) == (image.left_ear + image.right_ear) \div 2

\* eyes_open = avg_ear > EAR_BLINK_THRESHOLD
EyesOpenAtThreshold(avg_ear) == avg_ear >= EAR_BLINK_THRESHOLD
EyesOpen(avg_ear) == avg_ear > EAR_BLINK_THRESHOLD

\* if self.eye_closed_frames >= CONSECUTIVE_FRAMES_FOR_BLINK
ClosedLongEnoughAtOnce(eye_closed_frames) == eye_closed_frames >= 1
ClosedLongEnough(eye_closed_frames) == eye_closed_frames >= CONSECUTIVE_FRAMES_FOR_BLINK

\* self.eye_closed_frames = 0 on an open-eye frame
ClosedFramesAfterOpenKept(eye_closed_frames) == eye_closed_frames
ClosedFramesAfterOpen(eye_closed_frames) == 0

\* the dict of the "landmarks is None" and "except" branches of process_frame
BlinkNoFaceResult(d, error) ==
    [blink_detected |-> FALSE, ear_value |-> 0, left_ear |-> 0, right_ear |-> 0,
     blink_count |-> d.blink_count, left_eye_open |-> FALSE, right_eye_open |-> FALSE,
     face_detected |-> FALSE, error |-> error]

\* the "landmarks is None" branch returns before any field of self is assigned
BlinkAfterNoFaceAsOpen(d) == [d EXCEPT !.eye_closed_frames = 0, !.was_eye_closed = FALSE]
BlinkAfterNoFace(d) == d

\* BlinkDetector.process_frame: the detector after the frame and the dict returned
BlinkProcessFrame(d, image) ==
    IF image.detect = "raises"
    THEN [detector |-> d, ret |-> BlinkNoFaceResult(d, "exception")]
    ELSE IF image.detect = "none"
    THEN [detector |-> BlinkAfterNoFace(d), ret |-> BlinkNoFaceResult(d, None)]
    ELSE
    LET avg_ear == AverageEar(image)
        left_eye_open == image.left_ear > EAR_BLINK_THRESHOLD
        right_eye_open == image.right_ear > EAR_BLINK_THRESHOLD
        eyes_open == EyesOpen(avg_ear)
        closed_frames == d.eye_closed_frames + 1
        blink_detected == eyes_open /\ d.was_eye_closed
        d2 == IF ~eyes_open
              THEN [d EXCEPT !.eye_closed_frames = closed_frames,
                             !.was_eye_closed =
                                 IF ClosedLongEnough(closed_frames) THEN TRUE ELSE @,
                             !.previous_ear = avg_ear]
              ELSE [d EXCEPT !.blink_count = IF d.was_eye_closed THEN @ + 1 ELSE @,
                             !.was_eye_closed = FALSE,
                             !.eye_closed_frames = ClosedFramesAfterOpen(@),
                             !.previous_ear = avg_ear]
    IN  [detector |-> d2,
         ret |-> [blink_detected |-> blink_detected, ear_value |-> avg_ear,
                  left_ear |-> image.left_ear, right_ear |-> image.right_ear,
                  blink_count |-> d2.blink_count,
                  left_eye_open |-> left_eye_open, right_eye_open |-> right_eye_open,
                  face_detected |-> TRUE, error |-> None]]

\* check_blink_from_base64: decode, fetch the global detector, optional reset,
\* process_frame; a decoding failure returns the fixed error dict
check_blink_from_base64(d, image, reset_session) ==
    IF ~image.decodes
    THEN [detector |-> d,
          ret |-> [BlinkNoFaceResult(d, "Failed to process image") EXCEPT !.blink_count = 0]]
    ELSE BlinkProcessFrame(IF reset_session THEN BlinkReset(d) ELSE d, image)

\* get_blink_detector(): the detector that serves a verification session
get_blink_detector(sid) == blink

(***************************************************************************)
(* head_pose.py: HeadPoseDetector                                           *)
(***************************************************************************)
YAW_THRESHOLD == 1000
PITCH_THRESHOLD == 2000
CONSECUTIVE_FRAMES_FOR_TURN == 2

Abs(x) == IF x < 0 THEN -x ELSE x

\* round(x, 3) of a value given in ten-thousandths (ties to even)
Round3(x) ==
    LET r == x % 10
        down == x - r
    IN  IF r < 5 THEN down
        ELSE IF r > 5 THEN down + 10
        ELSE IF (down \div 10) % 2 = 0 THEN down ELSE down + 10

NewHeadPoseDetector ==
    [left_turn_frames |-> 0, right_turn_frames |-> 0, previous_yaw |-> 0,
     turn_detected_left |-> FALSE, turn_detected_right |-> FALSE]

HeadReset(d) ==
    [d EXCEPT !.left_turn_frames = 0, !.right_turn_frames = 0, !.previous_yaw = 0,
              !.turn_detected_left = FALSE, !.turn_detected_right = FALSE]

\* is_turning_left = yaw > YAW_THRESHOLD ; is_turning_right = yaw < -YAW_THRESHOLD
IsTurningLeft(yaw) == yaw > YAW_THRESHOLD
IsTurningRight(yaw) == yaw < -YAW_THRESHOLD

\* direction: yaw first, then pitch, else forward
Direction(yaw, pitch) ==
    IF Abs(yaw) > YAW_THRESHOLD THEN (IF yaw > 0 THEN "left" ELSE "right")
    ELSE IF Abs(pitch) > PITCH_THRESHOLD THEN (IF pitch > 0 THEN "up" ELSE "down")
    ELSE "forward"

\* self.turn_detected_x = True once x_turn_frames >= CONSECUTIVE_FRAMES_FOR_TURN
ConfirmOnlyWhileTurning(detected, turn_frames) ==
    turn_frames >= CONSECUTIVE_FRAMES_FOR_TURN
Confirm(detected, turn_frames) ==
    IF turn_frames >= CONSECUTIVE_FRAMES_FOR_TURN THEN TRUE ELSE detected

\* the dict of the "landmarks is None" and "except" branches of process_frame
HeadNoFaceResult(d, error) ==
    [yaw |-> 0, pitch |-> 0, direction |-> "unknown",
     is_turning_left |-> FALSE, is_turning_right |-> FALSE,
     left_turn_completed |-> d.turn_detected_left,
     right_turn_completed |-> d.turn_detected_right,
     face_detected |-> FALSE, error |-> error]

\* a turn counter after a frame with a face: one more while turning that way,
\* 0 otherwise
TurnFramesKept(is_turning, turn_frames) ==
    IF is_turning THEN turn_frames + 1 ELSE turn_frames
TurnFrames(is_turning, turn_frames) ==
    IF is_turning THEN turn_frames + 1 ELSE 0

\* the "landmarks is None" branch returns before any field of self is assigned
HeadAfterNoFaceAsForward(d) == [d EXCEPT !.left_turn_frames = 0, !.right_turn_frames = 0]
HeadAfterNoFace(d) == d

\* HeadPoseDetector.process_frame: the detector after the frame and the dict returned
HeadProcessFrame(d, image) ==
    IF image.detect = "raises"
    THEN [detector |-> d, ret |-> HeadNoFaceResult(d, "exception")]
    ELSE IF image.detect = "none"
    THEN [detector |-> HeadAfterNoFace(d), ret |-> HeadNoFaceResult(d, None)]
    ELSE
    LET yaw == image.yaw
        pitch == image.pitch
        is_turning_left == IsTurningLeft(yaw)
        is_turning_right == IsTurningRight(yaw)
        left_frames == TurnFrames(is_turning_left, d.left_turn_frames)
        right_frames == IF is_turning_left THEN 0
                        ELSE TurnFrames(is_turning_right, d.right_turn_frames)
        d2 == [d EXCEPT !.left_turn_frames = left_frames,
                        !.right_turn_frames = right_frames,
                        !.turn_detected_left = Confirm(@, left_frames),
                        !.turn_detected_right = Confirm(@, right_frames),
                        !.previous_yaw = yaw]
    IN  [detector |-> d2,
         ret |-> [yaw |-> Round3(yaw), pitch |-> Round3(pitch),
                  direction |-> Direction(yaw, pitch),
                  is_turning_left |-> is_turning_left,
                  is_turning_right |-> is_turning_right,
                  left_turn_completed |-> d2.turn_detected_left,
                  right_turn_completed |-> d2.turn_detected_right,
                  face_detected |-> TRUE, error |-> None]]

\* check_head_pose_from_base64
check_head_pose_from_base64(d, image, reset_session) ==
    IF ~image.decodes
    THEN [detector |-> d,
          ret |-> [HeadNoFaceResult(d, "Failed to process image") EXCEPT
                      !.left_turn_completed = FALSE, !.right_turn_completed = FALSE]]
    ELSE HeadProcessFrame(IF reset_session THEN HeadReset(d) ELSE d, image)

\* get_head_pose_detector(): the detector that serves a verification session
get_head_pose_detector(sid) == head

\* detect_head_turn: turn_detected for a frame with a face
DetectHeadTurn(yaw, required_direction, threshold) ==
    IF required_direction = "left" THEN yaw > threshold
    ELSE IF required_direction = "right" THEN yaw < -threshold
    ELSE FALSE

(***************************************************************************)
(* challenge_engine.py: validate_multi_challenge_batch                      *)
(***************************************************************************)
SMILE_BATCH_THRESHOLD == 30
BLINK_BATCH_THRESHOLD == 210
TURN_BATCH_THRESHOLD == 1500

\* check_smile(image_np, threshold): is_smiling and happy_score
check_smile(image, threshold) ==
    IF image.happy < 0
    THEN [is_smiling |-> FALSE, happy_score |-> 0]
    ELSE [is_smiling |-> image.happy >= threshold, happy_score |-> image.happy]

\* the pass criterion of a turn entry, from the yaw of the returned dict
TurnPassed(challenge_type, yaw) ==
    IF challenge_type = TURN_LEFT THEN yaw < -TURN_BATCH_THRESHOLD
                                  ELSE yaw > TURN_BATCH_THRESHOLD

\* one pass of the loop body: acc holds the detectors, results and all_passed
BatchEntry(acc, i, entry) ==
    LET challenge_type == entry.challenge_type
        image == entry.image
        Failed(error) ==
            [acc EXCEPT !.results = Append(@, [index |-> i, challenge_type |-> challenge_type,
                                               passed |-> FALSE, error |-> error]),
                        !.all_passed = FALSE]
    IN  IF challenge_type = None \/ ~image.present
        THEN Failed("Missing challenge_type or image")
        ELSE IF challenge_type = SMILE
        THEN IF ~image.decodes
             THEN Failed("exception")
             ELSE LET result == check_smile(image, SMILE_BATCH_THRESHOLD)
                  IN  [acc EXCEPT !.results = Append(@, [index |-> i,
                                                 challenge_type |-> challenge_type,
                                                 passed |-> result.is_smiling,
                                                 score |-> result.happy_score]),
                                  !.all_passed = @ /\ result.is_smiling]
        ELSE IF challenge_type = BLINK
        THEN LET r == check_blink_from_base64(acc.blink, image, TRUE)
                 passed == r.ret.ear_value < BLINK_BATCH_THRESHOLD
             IN  [acc EXCEPT !.blink = r.detector,
                             !.blink_frames = IF image.decodes THEN Append(@, image) ELSE @,
                             !.results = Append(@, [index |-> i,
                                                    challenge_type |-> challenge_type,
                                                    passed |-> passed,
                                                    ear_value |-> r.ret.ear_value]),
                             !.all_passed = @ /\ passed]
        ELSE IF challenge_type \in {TURN_LEFT, TURN_RIGHT}
        THEN LET r == check_head_pose_from_base64(acc.head, image, TRUE)
                 passed == TurnPassed(challenge_type, r.ret.yaw)
             IN  [acc EXCEPT !.head = r.detector,
                             !.head_frames = IF image.decodes THEN Append(@, image) ELSE @,
                             !.results = Append(@, [index |-> i,
                                                    challenge_type |-> challenge_type,
                                                    passed |-> passed,
                                                    yaw |-> r.ret.yaw,
                                                    detected_direction |-> r.ret.direction]),
                             !.all_passed = @ /\ passed]
        ELSE Failed("Unknown challenge type")

RECURSIVE BatchLoop(_, _, _)
\* the loop over challenge_results, from entry i on
BatchLoop(acc, i, challenge_results) ==
    IF i > Len(challenge_results)
    THEN acc
    ELSE BatchLoop(BatchEntry(acc, i - 1, challenge_results[i]), i + 1, challenge_results)

PassedCount(results) == Cardinality({i \in 1..Len(results) : results[i].passed})

\* validate_multi_challenge_batch: the detectors after the call, the frames the
\* detectors processed, and the dict returned
validate_multi_challenge_batch(blink_d, head_d, challenge_results) ==
    LET acc == BatchLoop([blink |-> blink_d, head |-> head_d,
                          blink_frames |-> <<>>, head_frames |-> <<>>,
                          results |-> <<>>, all_passed |-> TRUE],
                         1, challenge_results)
    IN  [blink |-> acc.blink, head |-> acc.head,
         blink_frames |-> acc.blink_frames, head_frames |-> acc.head_frames,
         ret |-> [all_passed |-> acc.all_passed,
                  total_challenges |-> Len(challenge_results),
                  passed_count |-> PassedCount(acc.results),
                  results |-> acc.results]]

\* the images of batch entries: a smile with open eyes, closed eyes, a turn each
\* way, a happy score exactly at the threshold, no face, undecodable, missing
BatchImages ==
    {Image(TRUE, "face", 300, 300, 0, 0, 80),
     Image(TRUE, "face", 100, 100, 0, 0, 80),
     Image(TRUE, "face", 300, 300, 2000, 0, 10),
     Image(TRUE, "face", 300, 300, -2000, 0, 10),
     Image(TRUE, "face", 300, 300, 0, 0, 30),
     NoFaceImage, Undecodable, MissingImage}
BatchEntries == [challenge_type : ChallengeTypeArgs \cup {None}, image : BatchImages]
BatchArgs == UNION {[1..n -> BatchEntries] : n \in 0..MaxBatch}

(***************************************************************************)
(* The frames a detector has processed (history, for the claims)            *)
(***************************************************************************)
\* what the BlinkDetector saw in a frame: no face, closed eyes or open eyes
BlinkFrameKind(image) ==
    IF image.detect # "face" THEN "noface"
    ELSE IF image.left_ear + image.right_ear > 2 * EAR_BLINK_THRESHOLD THEN "open"
    ELSE "closed"

\* what the HeadPoseDetector saw in a frame
HeadFrameKind(image) ==
    IF image.detect # "face" THEN "noface"
    ELSE IF image.yaw > YAW_THRESHOLD THEN "left"
    ELSE IF image.yaw < -YAW_THRESHOLD THEN "right"
    ELSE "forward"

BlinkEvent(image, reset_session) ==
    [kind |-> BlinkFrameKind(image), reset |-> reset_session]
HeadEvent(image, reset_session) ==
    [kind |-> HeadFrameKind(image), reset |-> reset_session]

(***************************************************************************)
(* ocr_service/services/validators.py: validate_document_number             *)
(*                                                                         *)
(* The excluded collaborators are modelled by what they answer:             *)
(*   Iso3166        iso3166.countries.get: alpha-3 code -> alpha2 and name  *)
(*   StdnumModules  the attributes get_cc_module finds per alpha-2 code     *)
(*   a number       its text and the verdict of the discovered module's     *)
(*                  validate() on it                                        *)
(***************************************************************************)
_VALIDATOR_MODULE_PRIORITY ==
    <<"personalid", "cedula", "dni", "cpf", "curp", "rut", "nie", "nif",
      "pesel", "bsn", "personnummer", "fodselsnummer", "hetu", "kennitala",
      "cpr", "nino", "ssn", "sin", "tfn", "aadhaar", "idnr", "cnp", "egn",
      "amka", "isikukood", "asmens_kodas", "oib", "emso", "rodne_cislo",
      "rc", "cui", "ci", "cc", "ric", "identity_number", "nit", "rfc",
      "cuit", "vat">>

\* iso3166.countries.get(alpha3_code); a KeyError for any other code
Iso3166 ==
    [code \in {"DOM", "ESP", "MEX", "BRA", "ZWE", "ATA"} |->
        CASE code = "DOM" -> [alpha2 |-> "do", name |-> "Dominican Republic"]
          [] code = "ESP" -> [alpha2 |-> "es", name |-> "Spain"]
          [] code = "MEX" -> [alpha2 |-> "mx", name |-> "Mexico"]
          [] code = "BRA" -> [alpha2 |-> "br", name |-> "Brazil"]
          [] code = "ZWE" -> [alpha2 |-> "zw", name |-> "Zimbabwe"]
          [] code = "ATA" -> [alpha2 |-> "aq", name |-> "Antarctica"]]

\* a module attribute of a stdnum country package
StdnumModule(name, has_validate, doc) ==
    [name |-> name, has_validate |-> has_validate, doc |-> doc]

\* get_cc_module(alpha2_code, module_name) finds these; None for anything else.
\* "aq" has an attribute named like a validator that exposes no validate().
StdnumModules ==
    [alpha2 \in {"do", "es", "mx", "br", "zw", "aq"} |->
        CASE alpha2 = "do" -> {StdnumModule("cedula", TRUE, "Cedula"),
                               StdnumModule("rnc", TRUE, "RNC")}
          [] alpha2 = "es" -> {StdnumModule("nif", TRUE, "NIF"),
                               StdnumModule("dni", TRUE, "DNI"),
                               StdnumModule("nie", TRUE, "NIE")}
          [] alpha2 = "mx" -> {StdnumModule("rfc", TRUE, "RFC"),
                               StdnumModule("curp", TRUE, "")}
          [] alpha2 = "br" -> {StdnumModule("cpf", TRUE, "CPF"),
                               StdnumModule("cnpj", TRUE, "CNPJ")}
          [] alpha2 = "zw" -> {}
          [] alpha2 = "aq" -> {StdnumModule("vat", FALSE, "")}]

\* if not x, for a str | None argument
Falsy(x) == x = None \/ x = ""

\* alpha3_to_alpha2
alpha3_to_alpha2(alpha3_code) ==
    IF Falsy(alpha3_code) THEN None
    ELSE IF alpha3_code \in DOMAIN Iso3166 THEN Iso3166[alpha3_code].alpha2
    ELSE None

\* get_country_display_name
get_country_display_name(alpha3_code) ==
    IF Falsy(alpha3_code) THEN "Unknown"
    ELSE IF alpha3_code \in DOMAIN Iso3166 THEN Iso3166[alpha3_code].name
    ELSE alpha3_code

\* str.upper() of the module names that occur in StdnumModules without a doc
UpperName(module_name) ==
    CASE module_name = "curp" -> "CURP"
      [] module_name = "vat" -> "VAT"
      [] OTHER -> module_name

\* _extract_display_name
_extract_display_name(module, module_name) ==
    IF module.doc # "" THEN module.doc ELSE UpperName(module_name)

\* the positions in the priority list whose module exists and has validate()
Discoverable(alpha2_code) ==
    {k \in 1..Len(_VALIDATOR_MODULE_PRIORITY) :
        \E m \in StdnumModules[alpha2_code] :
            m.name = _VALIDATOR_MODULE_PRIORITY[k] /\ m.has_validate}

\* discover_validator: the first module of the priority list that exists
NoValidatorInfo == [found |-> FALSE]
discover_validator(alpha3_code) ==
    LET alpha2_code == alpha3_to_alpha2(alpha3_code)
    IN  IF alpha2_code = None THEN NoValidatorInfo
        ELSE IF Discoverable(alpha2_code) = {} THEN NoValidatorInfo
        ELSE LET k == CHOOSE i \in Discoverable(alpha2_code) :
                          \A j \in Discoverable(alpha2_code) : i <= j
                 module_name == _VALIDATOR_MODULE_PRIORITY[k]
                 module == CHOOSE m \in StdnumModules[alpha2_code] : m.name = module_name
             IN  [found |-> TRUE,
                  country_code |-> alpha2_code,
                  module_name |-> module_name,
                  full_path |-> <<"stdnum", alpha2_code, module_name>>,
                  display_name |-> _extract_display_name(module, module_name)]

\* ValidationResult(is_valid, error_code, error_message, validator_used, format_name)
ValidationResult(is_valid, error_code, error_message, validator_used, format_name) ==
    [is_valid |-> is_valid, error_code |-> error_code, error_message |-> error_message,
     validator_used |-> validator_used, format_name |-> format_name]

\* an error message: its template and what is interpolated into it
Message(template, country, format) ==
    [template |-> template, country |-> country, format |-> format]
NoMessage == Message(None, None, None)
NoPath == <<>>

\* _VALIDATION_ERROR_MAP: exception type -> error code
_VALIDATION_ERROR_MAP ==
    [e \in {"InvalidLength", "InvalidChecksum", "InvalidFormat", "InvalidComponent"} |->
        CASE e = "InvalidLength" -> "invalid_document_length"
          [] e = "InvalidChecksum" -> "invalid_document_checksum"
          [] e = "InvalidFormat" -> "invalid_document_format"
          [] e = "InvalidComponent" -> "invalid_document_component"]

\* the result for a country without a discoverable validator
ValidationUnavailableRejects(country_name) ==
    ValidationResult(FALSE, "validation_unavailable_for_country",
                     Message("not available", country_name, None), NoPath, None)
ValidationUnavailable(country_name) ==
    ValidationResult(TRUE, "validation_unavailable_for_country",
                     Message("not available", country_name, None), NoPath, None)

\* validate_document_number(number, country_code)
validate_document_number(number, country_code) ==
    IF Falsy(number.text)
    THEN ValidationResult(FALSE, "missing_document_number",
                          Message("required", None, None), NoPath, None)
    ELSE IF Falsy(country_code)
    THEN ValidationResult(TRUE, None, NoMessage, NoPath, None)
    ELSE
    LET validator_info == discover_validator(country_code)
        country_name == get_country_display_name(country_code)
    IN  IF ~validator_info.found
        THEN ValidationUnavailable(country_name)
        ELSE IF number.verdict = "ok"
        THEN ValidationResult(TRUE, None, NoMessage, validator_info.full_path,
                              validator_info.display_name)
        ELSE IF number.verdict \in DOMAIN _VALIDATION_ERROR_MAP
        THEN ValidationResult(FALSE, _VALIDATION_ERROR_MAP[number.verdict],
                              Message(number.verdict, country_name,
                                      validator_info.display_name),
                              validator_info.full_path, validator_info.display_name)
        ELSE ValidationResult(FALSE, "invalid_document_number",
                              Message("ValidationError", country_name,
                                      validator_info.display_name),
                              validator_info.full_path, validator_info.display_name)

\* a document number argument: its text, and what validate() of a discovered
\* module does with it ("ok": returns; otherwise the exception it raises)
Number(text, verdict) == [text |-> text, verdict |-> verdict]
NumberArgs ==
    {Number(None, "ok"), Number("", "ok"),
     Number("00114918507", "ok"),
     Number("123", "InvalidLength"),
     Number("00114918508", "InvalidChecksum"),
     Number("0011491850X", "InvalidFormat"),
     Number("99999999999", "InvalidComponent"),
     Number("00000000000", "ValidationError")}
\* country_code arguments: none, empty, known countries, and an unknown code
CountryCodeArgs == {None, "", "DOM", "ESP", "MEX", "BRA", "ZWE", "ATA", "XXX"}
ValidateArgs ==
    [fn : {"validate_document_number"}, number : NumberArgs,
     country_code : CountryCodeArgs]

(***************************************************************************)
(* ocr_service/services/document_detector.py                                *)
(*                                                                         *)
(* A text is a sequence of characters.  A compiled pattern is a sequence of *)
(* elements, each a character class with a repetition range; search() is    *)
(* re.Pattern.search.                                                       *)
(***************************************************************************)
\* DocumentType
PASSPORT == "passport"
NATIONAL_ID == "national_id"
DRIVERS_LICENSE == "drivers_license"
UNKNOWN == "unknown"

\* the character classes [A-Z], \d and \s
Letters ==
    {"A", "B", "C", "D", "E", "F", "G", "H", "I", "J", "K", "L", "M", "N",
    "O", "P", "Q", "R", "S", "T", "U", "V", "W", "X", "Y", "Z"}
Digits == {"0", "1", "2", "3", "4", "5", "6", "7", "8", "9"}
Whitespace == {" ", "\t", "\n"}

\* pattern elements: a class (or its complement), repeated lo..hi times
\* (unbounded above when inf)
Element(chars, neg, lo, hi, inf) ==
    [chars |-> chars, neg |-> neg, lo |-> lo, hi |-> hi, inf |-> inf]
One(chars) == Element(chars, FALSE, 1, 1, FALSE)
Rep(chars, lo, hi) == Element(chars, FALSE, lo, hi, FALSE)
Opt(chars) == Element(chars, FALSE, 0, 1, FALSE)
Plus(chars) == Element(chars, FALSE, 1, 1, TRUE)
Star(chars) == Element(chars, FALSE, 0, 0, TRUE)
\* ".*": any character but a newline, any number of times
DotStar == Element({"\n"}, TRUE, 0, 0, TRUE)
\* a literal string
Lit(s) == [i \in 1..Len(s) |-> One({s[i]})]

\* DOCUMENT_MARKERS[DocumentType.NATIONAL_ID]
NATIONAL_ID_MARKERS ==
    <<
      \* r"NATIONAL\s+ID"
      Lit(<<"N", "A", "T", "I", "O", "N", "A", "L">>) \o <<Plus(Whitespace)>>
        \o Lit(<<"I", "D">>),
      \* r"IDENTITY\s+CARD"
      Lit(<<"I", "D", "E", "N", "T", "I", "T", "Y">>) \o <<Plus(Whitespace)>>
        \o Lit(<<"C", "A", "R", "D">>),
      \* r"ID\s+CARD"
      Lit(<<"I", "D">>) \o <<Plus(Whitespace)>> \o Lit(<<"C", "A", "R", "D">>),
      \* r"CÉDULA\s+DE\s+IDENTIDAD"
      Lit(<<"C", "É", "D", "U", "L", "A">>) \o <<Plus(Whitespace)>>
        \o Lit(<<"D", "E">>) \o <<Plus(Whitespace)>>
        \o Lit(<<"I", "D", "E", "N", "T", "I", "D", "A", "D">>),
      \* r"CEDULA\s+DE\s+IDENTIDAD"
      Lit(<<"C", "E", "D", "U", "L", "A">>) \o <<Plus(Whitespace)>>
        \o Lit(<<"D", "E">>) \o <<Plus(Whitespace)>>
        \o Lit(<<"I", "D", "E", "N", "T", "I", "D", "A", "D">>),
      \* r"DOCUMENTO\s+NACIONAL"
      Lit(<<"D", "O", "C", "U", "M", "E", "N", "T", "O">>)
        \o <<Plus(Whitespace)>>
        \o Lit(<<"N", "A", "C", "I", "O", "N", "A", "L">>),
      \* r"DNI"
      Lit(<<"D", "N", "I">>),
      \* r"JUNTA\s+CENTRAL\s+ELECTORAL"
      Lit(<<"J", "U", "N", "T", "A">>) \o <<Plus(Whitespace)>>
        \o Lit(<<"C", "E", "N", "T", "R", "A", "L">>) \o <<Plus(Whitespace)>>
        \o Lit(<<"E", "L", "E", "C", "T", "O", "R", "A", "L">>),
      \* r"JCE"
      Lit(<<"J", "C", "E">>),
      \* r"\d{3}[-\s]?\d{7}[-\s]?\d{1}"
      <<Rep(Digits, 3, 3)>> \o <<Opt({"-"} \cup Whitespace)>>
        \o <<Rep(Digits, 7, 7)>> \o <<Opt({"-"} \cup Whitespace)>>
        \o <<Rep(Digits, 1, 1)>>,
      \* r"\d{8}[A-Z]"
      <<Rep(Digits, 8, 8)>> \o <<One(Letters)>>
    >>

\* DOCUMENT_MARKERS[DocumentType.PASSPORT]
PASSPORT_MARKERS ==
    <<
      \* r"PASAPORTE"
      Lit(<<"P", "A", "S", "A", "P", "O", "R", "T", "E">>),
      \* r"PASSPORT"
      Lit(<<"P", "A", "S", "S", "P", "O", "R", "T">>),
      \* r"REISEPASS"
      Lit(<<"R", "E", "I", "S", "E", "P", "A", "S", "S">>),
      \* r"PASSEPORT"
      Lit(<<"P", "A", "S", "S", "E", "P", "O", "R", "T">>),
      \* r"P<[A-Z]{3}"
      Lit(<<"P", "<">>) \o <<Rep(Letters, 3, 3)>>,
      \* r"TIPO\s*/?\s*TYPE\s*P"
      Lit(<<"T", "I", "P", "O">>) \o <<Star(Whitespace)>> \o <<Opt({"/"})>>
        \o <<Star(Whitespace)>> \o Lit(<<"T", "Y", "P", "E">>)
        \o <<Star(Whitespace)>> \o Lit(<<"P">>)
    >>

\* DOCUMENT_MARKERS[DocumentType.DRIVERS_LICENSE]
DRIVERS_LICENSE_MARKERS ==
    <<
      \* r"LICENCIA\s+DE\s+CONDUCIR"
      Lit(<<"L", "I", "C", "E", "N", "C", "I", "A">>) \o <<Plus(Whitespace)>>
        \o Lit(<<"D", "E">>) \o <<Plus(Whitespace)>>
        \o Lit(<<"C", "O", "N", "D", "U", "C", "I", "R">>),
      \* r"DRIVER.*LICENSE"
      Lit(<<"D", "R", "I", "V", "E", "R">>) \o <<DotStar>>
        \o Lit(<<"L", "I", "C", "E", "N", "S", "E">>),
      \* r"DRIVING\s+LICEN[CS]E"
      Lit(<<"D", "R", "I", "V", "I", "N", "G">>) \o <<Plus(Whitespace)>>
        \o Lit(<<"L", "I", "C", "E", "N">>) \o <<One({"C", "S"})>>
        \o Lit(<<"E">>),
      \* r"PERMIS\s+DE\s+CONDUIRE"
      Lit(<<"P", "E", "R", "M", "I", "S">>) \o <<Plus(Whitespace)>>
        \o Lit(<<"D", "E">>) \o <<Plus(Whitespace)>>
        \o Lit(<<"C", "O", "N", "D", "U", "I", "R", "E">>),
      \* r"FÜHRERSCHEIN"
      Lit(<<"F", "Ü", "H", "R", "E", "R", "S", "C", "H", "E", "I", "N">>),
      \* r"CATEGORÍA"
      Lit(<<"C", "A", "T", "E", "G", "O", "R", "Í", "A">>),
      \* r"CATEGORY"
      Lit(<<"C", "A", "T", "E", "G", "O", "R", "Y">>)
    >>


\* DOCUMENT_MARKERS, in the insertion order of the dict
DocumentTypeOrder == <<NATIONAL_ID, PASSPORT, DRIVERS_LICENSE>>
DOCUMENT_MARKERS(doc_type) ==
    CASE doc_type = NATIONAL_ID -> NATIONAL_ID_MARKERS
      [] doc_type = PASSPORT -> PASSPORT_MARKERS
      [] doc_type = DRIVERS_LICENSE -> DRIVERS_LICENSE_MARKERS

\* _MRZ_PASSPORT_PATTERN = re.compile(r"P<[A-Z]{3}", re.IGNORECASE)
_MRZ_PASSPORT_PATTERN == Lit(<<"P", "<">>) \o <<Rep(Letters, 3, 3)>>

\* str.upper(), on the characters that occur in the model's texts
UpperChar(c) ==
    CASE c = "p" -> "P"
      [] c = "u" -> "U"
      [] c = "s" -> "S"
      [] OTHER -> c
Upper(text) == [i \in 1..Len(text) |-> UpperChar(text[i])]

\* one character against a class, patterns being compiled with re.IGNORECASE
\* (the classes of the markers hold upper-case letters only)
CharMatches(c, e) == (UpperChar(c) \in e.chars) # e.neg

RECURSIVE MatchFrom(_, _, _, _, _)
\* the elements k.. of the pattern match at position pos of the text, count
\* characters being already taken by element k
MatchFrom(pattern, k, text, pos, count) ==
    IF k > Len(pattern) THEN TRUE
    ELSE LET e == pattern[k]
         IN  \/ /\ count >= e.lo
                /\ MatchFrom(pattern, k + 1, text, pos, 0)
             \/ /\ e.inf \/ count < e.hi
                /\ pos <= Len(text)
                /\ CharMatches(text[pos], e)
                /\ MatchFrom(pattern, k, text, pos + 1, count + 1)

\* pattern.search(text) is not None
search(pattern, text) == \E pos \in 1..(Len(text) + 1) : MatchFrom(pattern, 1, text, pos, 0)

\* a confidence: the quotient num / den
Fraction(num, den) == [num |-> num, den |-> den]
FractionEq(a, b) == a.num * b.den = b.num * a.den

\* if _MRZ_PASSPORT_PATTERN.search(text_upper)
MrzFastPathOff(text_upper) == FALSE
MrzFastPath(text_upper) == search(_MRZ_PASSPORT_PATTERN, text_upper)

\* scores[doc_type]: how many of the type's patterns match
Score(doc_type, text_upper) ==
    Cardinality({k \in 1..Len(DOCUMENT_MARKERS(doc_type)) :
                    search(DOCUMENT_MARKERS(doc_type)[k], text_upper)})

\* the scores dict after the counting loop, in dict order
Scores(text_upper) ==
    [i \in 1..Len(DocumentTypeOrder) |-> Score(DocumentTypeOrder[i], text_upper)]

\* max(scores, key=scores.get): the first type, in dict order, with the top score
MaxTypeLast(text_upper) ==
    LET scores == Scores(text_upper)
        k == CHOOSE i \in 1..Len(scores) :
                 /\ \A j \in 1..Len(scores) : scores[j] <= scores[i]
                 /\ \A j \in (i + 1)..Len(scores) : scores[j] < scores[i]
    IN  DocumentTypeOrder[k]
MaxType(text_upper) ==
    LET scores == Scores(text_upper)
        k == CHOOSE i \in 1..Len(scores) :
                 /\ \A j \in 1..Len(scores) : scores[j] <= scores[i]
                 /\ \A j \in 1..(i - 1) : scores[j] < scores[i]
    IN  DocumentTypeOrder[k]

\* detect_document_type(text)
detect_document_type(text) ==
    LET text_upper == Upper(text)
    IN  IF MrzFastPath(text_upper)
        THEN [doc_type |-> PASSPORT, confidence |-> Fraction(1, 1)]
        ELSE LET max_type == MaxType(text_upper)
                 max_score == Score(max_type, text_upper)
             IN  IF max_score = 0
                 THEN [doc_type |-> UNKNOWN, confidence |-> Fraction(0, 1)]
                 ELSE [doc_type |-> max_type,
                       confidence |-> Fraction(max_score,
                                               Len(DOCUMENT_MARKERS(max_type)))]

\* the OCR texts of the model are made of these pieces: the MRZ prefix in both
\* cases, letters, a blank, and markers of each document type
TextChunks ==
    {<<"P", "<">>,
     <<"p", "<">>,
     <<"u", "s">>,
     <<"A">>,
     <<" ">>,
     <<"D", "N", "I">>,
     <<"J", "C", "E", " ", "1", "2", "3", "4", "5", "6", "7", "8", "Z">>,
     <<"P", "A", "S", "S", "P", "O", "R", "T">>,
     <<"C", "A", "T", "E", "G", "O", "R", "Y">>,
     <<"D", "R", "I", "V", "E", "R", " ", "L", "I", "C", "E", "N", "S", "E", " ", "C", "A", "T", "E", "G", "O", "R", "Y">>}
RECURSIVE TextsOf(_)
\* the texts made of exactly n pieces
TextsOf(n) ==
    IF n = 0 THEN {<<>>}
    ELSE {t \o c : t \in TextsOf(n - 1), c \in TextChunks}
DetectArgs ==
    [fn : {"detect_document_type"}, text : UNION {TextsOf(n) : n \in 0..MaxChunks}]

(***************************************************************************)
(* ocr_service/services/validators.py: calculate_confidence                 *)
(* Scores are in thousandths (0.3 is 300); the OCR engine's average         *)
(* confidence is in hundredths (1.0 is 100).                                *)
(***************************************************************************)
TEXT_LENGTH_HIGH == 200
TEXT_LENGTH_MEDIUM == 100
TEXT_LENGTH_LOW == 50
TEXT_QUALITY_MAX_SCORE == 300
FIELD_EXTRACTION_MAX_SCORE == 400
OCR_CONFIDENCE_MAX_SCORE == 300
POINTS_PER_FIELD == 100

\* the text-length tiers: 0.3, 0.3 * 0.67, 0.3 * 0.33, nothing
TextQualityScore(text_length) ==
    IF text_length > TEXT_LENGTH_HIGH THEN TEXT_QUALITY_MAX_SCORE
    ELSE IF text_length > TEXT_LENGTH_MEDIUM THEN (TEXT_QUALITY_MAX_SCORE * 67) \div 100
    ELSE IF text_length > TEXT_LENGTH_LOW THEN (TEXT_QUALITY_MAX_SCORE * 33) \div 100
    ELSE 0

\* field_score = min(FIELD_EXTRACTION_MAX_SCORE, fields_extracted * POINTS_PER_FIELD)
FieldScore(fields_extracted) ==
    Min(FIELD_EXTRACTION_MAX_SCORE, fields_extracted * POINTS_PER_FIELD)

\* ocr_avg_confidence * OCR_CONFIDENCE_MAX_SCORE
OcrScore(ocr_avg_confidence) == (ocr_avg_confidence * OCR_CONFIDENCE_MAX_SCORE) \div 100

\* return min(1.0, score)
ClampScoreOff(score) == score
ClampScore(score) == Min(1000, score)

\* calculate_confidence(text_length, fields_extracted, ocr_avg_confidence)
calculate_confidence(text_length, fields_extracted, ocr_avg_confidence) ==
    ClampScore(TextQualityScore(text_length) + FieldScore(fields_extracted)
               + OcrScore(ocr_avg_confidence))

\* the arguments: around each tier and cap, and far above them
TextLengthArgs == {0, 50, 51, 100, 101, 200, 201, 10000}
FieldsArgs == (0..MaxFields) \cup {100}
OcrConfidenceArgs == {0, 33, 50, 100, 150, 1000}
ConfidenceArgs ==
    [fn : {"calculate_confidence"}, text_length : TextLengthArgs,
     fields_extracted : FieldsArgs, ocr_avg_confidence : OcrConfidenceArgs]

(***************************************************************************)
(* ocr_service/services/validators.py: validate_dob                         *)
(* A date is the number of its day (date.toordinal()).                      *)
(***************************************************************************)
\* a dob argument: its text, whether strptime(dob, "%Y-%m-%d") parses it, and
\* the day it names
Dob(text, parses, day) == [text |-> text, parses |-> parses, day |-> day]

\* age = (today - birth).days // 365
Age(today, birth) == (today - birth) \div 365

\* if age < 0 or age > 150
IsInvalidAge(age) == age < 0 \/ age > 150

\* elif age < 18
IsMinorInclusive(age) == age <= 18
IsMinor(age) == age < 18

\* validate_dob(dob), called on the day today: the list of issues
validate_dob(dob, today) ==
    IF Falsy(dob.text) THEN <<>>
    ELSE IF ~dob.parses THEN <<"invalid_dob_format">>
    ELSE LET age == Age(today, dob.day)
         IN  IF IsInvalidAge(age) THEN <<"invalid_date_of_birth">>
             ELSE IF IsMinor(age) THEN <<"minor_age_detected">>
             ELSE <<>>

\* the days on which the validator runs (date.today())
TodayArgs == {739192, 739193, 739557}
\* how many days before today the birth dates of the model lie: around today,
\* one year, 18 years and 151 years (a negative number is a future date)
DaysAgoArgs ==
    {-3650, -366, -365, -364, -1, 0, 1, 364, 365, 366,
     18 * 365 - 1, 18 * 365, 18 * 365 + 1, 18 * 365 + 4, 18 * 365 + 5,
     40 * 365, 150 * 365, 151 * 365 - 1, 151 * 365, 151 * 365 + 1, 200 * 365}
DobArgs ==
    [fn : {"validate_dob"}, today : TodayArgs,
     dob : {Dob(None, FALSE, 0), Dob("", FALSE, 0), Dob("01/02/1990", FALSE, 0),
            Dob("1990-02-30", FALSE, 0)}]
    \cup {[fn |-> "validate_dob", today |-> t, dob |-> Dob("YYYY-MM-DD", TRUE, t - d)] :
             t \in TodayArgs, d \in DaysAgoArgs}

(***************************************************************************)
(* ocr_service/services/validators.py: validate_expiration_date             *)
(* The argument is a text, a sequence of characters; a date is a record of  *)
(* year, month and day, compared as datetime.date compares.                 *)
(***************************************************************************)
\* an exp_date argument: None, or a str
NoneArg == [is_none |-> TRUE, text |-> <<>>]
Str(text) == [is_none |-> FALSE, text |-> text]

\* if not exp_date
FalsyText(arg) == arg.is_none \/ arg.text = <<>>

\* int() of one decimal digit
DigitValue(c) ==
    CASE c = "0" -> 0 [] c = "1" -> 1 [] c = "2" -> 2 [] c = "3" -> 3
      [] c = "4" -> 4 [] c = "5" -> 5 [] c = "6" -> 6 [] c = "7" -> 7
      [] c = "8" -> 8 [] c = "9" -> 9

\* the character at pos is one of chars
At(text, pos, chars) == pos <= Len(text) /\ text[pos] \in chars

\* the day group of the format's regular expression at pos, its alternatives
\* in order: 3[0-1] | [1-2]\d | 0[1-9] | [1-9] | " "[1-9]; the length taken
DayLen(text, pos) ==
    IF \/ At(text, pos, {"3"}) /\ At(text, pos + 1, {"0", "1"})
       \/ At(text, pos, {"1", "2"}) /\ At(text, pos + 1, Digits)
       \/ At(text, pos, {"0"}) /\ At(text, pos + 1, Digits \ {"0"})
    THEN 2
    ELSE IF At(text, pos, Digits \ {"0"}) THEN 1
    ELSE IF At(text, pos, {" "}) /\ At(text, pos + 1, Digits \ {"0"}) THEN 2
    ELSE 0

\* what follows the month group: "-" and a day
RestMatches(text, pos) == At(text, pos, {"-"}) /\ DayLen(text, pos + 1) > 0

\* the month group at pos, its alternatives in order: 1[0-2] | 0[1-9] | [1-9];
\* an alternative is kept only if the rest of the expression matches after it
MonthLen(text, pos) ==
    IF /\ \/ At(text, pos, {"1"}) /\ At(text, pos + 1, {"0", "1", "2"})
          \/ At(text, pos, {"0"}) /\ At(text, pos + 1, Digits \ {"0"})
       /\ RestMatches(text, pos + 2)
    THEN 2
    ELSE IF At(text, pos, Digits \ {"0"}) /\ RestMatches(text, pos + 1) THEN 1
    ELSE 0

\* int() of the digits of text[from..to], blanks skipped
RECURSIVE IntOf(_, _, _)
IntOf(text, from, to) ==
    IF from > to THEN 0
    ELSE IF text[to] = " " THEN IntOf(text, from, to - 1)
    ELSE 10 * IntOf(text, from, to - 1) + DigitValue(text[to])

\* calendar.isleap and the number of days of a month
IsLeap(year) == year % 4 = 0 /\ (year % 100 # 0 \/ year % 400 = 0)
DaysInMonth(year, month) ==
    IF month = 2 THEN (IF IsLeap(year) THEN 29 ELSE 28)
    ELSE IF month \in {4, 6, 9, 11} THEN 30
    ELSE 31

Date(year, month, day) == [year |-> year, month |-> month, day |-> day]
NoDate == [ok |-> FALSE]

\* datetime.strptime(exp_date, "%Y-%m-%d").date(): the date, or ValueError
\* (ok is FALSE) when the text does not match (\d\d\d\d)-(month)-(day), when
\* characters remain after the match, or when the numbers name no date
strptime(text) ==
    IF ~(/\ \A i \in 1..4 : At(text, i, Digits)
         /\ At(text, 5, {"-"})
         /\ MonthLen(text, 6) > 0)
    THEN NoDate
    ELSE LET mlen == MonthLen(text, 6)
             dlen == DayLen(text, 6 + mlen + 1)
             year == IntOf(text, 1, 4)
             month == IntOf(text, 6, 5 + mlen)
             day == IntOf(text, 7 + mlen, 6 + mlen + dlen)
         IN  IF 6 + mlen + dlen # Len(text) THEN NoDate
             ELSE IF year < 1 \/ day > DaysInMonth(year, month) THEN NoDate
             ELSE [ok |-> TRUE, date |-> Date(year, month, day)]

\* date.__lt__: dates compare as (year, month, day)
DateNotAfter(a, b) ==
    \/ a.year < b.year
    \/ a.year = b.year /\ a.month < b.month
    \/ a.year = b.year /\ a.month = b.month /\ a.day <= b.day
DateBefore(a, b) ==
    \/ a.year < b.year
    \/ a.year = b.year /\ a.month < b.month
    \/ a.year = b.year /\ a.month = b.month /\ a.day < b.day

\* validate_expiration_date(exp_date), called on the day today
validate_expiration_date(exp_date, today) ==
    IF FalsyText(exp_date) THEN <<>>
    ELSE LET exp == strptime(exp_date.text)
         IN  IF ~exp.ok THEN <<"invalid_expiration_format">>
             ELSE IF DateBefore(exp.date, today) THEN <<"document_expired">>
             ELSE <<>>

\* str(n) of one decimal digit, and n written with width digits (zero padded)
DigitChar(n) ==
    CASE n = 0 -> "0" [] n = 1 -> "1" [] n = 2 -> "2" [] n = 3 -> "3"
      [] n = 4 -> "4" [] n = 5 -> "5" [] n = 6 -> "6" [] n = 7 -> "7"
      [] n = 8 -> "8" [] n = 9 -> "9"
RECURSIVE Padded(_, _)
Padded(n, width) ==
    IF width = 0 THEN <<>>
    ELSE Padded(n \div 10, width - 1) \o <<DigitChar(n % 10)>>
Unpadded(n) == IF n < 10 THEN <<DigitChar(n)>> ELSE Padded(n, 2)

\* the ways the model writes the numbers year, month, day as a text
DateStyles == {"iso", "unpadded", "slash", "dmy", "partial", "trailing"}
DateText(year, month, day, style) ==
    CASE style = "iso" ->
            Padded(year, 4) \o <<"-">> \o Padded(month, 2) \o <<"-">> \o Padded(day, 2)
      [] style = "unpadded" ->
            Padded(year, 4) \o <<"-">> \o Unpadded(month) \o <<"-">> \o Unpadded(day)
      [] style = "slash" ->
            Padded(year, 4) \o <<"/">> \o Padded(month, 2) \o <<"/">> \o Padded(day, 2)
      [] style = "dmy" ->
            Padded(day, 2) \o <<"-">> \o Padded(month, 2) \o <<"-">> \o Padded(year, 4)
      [] style = "partial" ->
            Padded(year, 4) \o <<"-">> \o Padded(month, 2)
      [] style = "trailing" ->
            Padded(year, 4) \o <<"-">> \o Padded(month, 2) \o <<"-">> \o Padded(day, 2)
               \o <<" ">>

\* the days on which the validator runs (date.today())
ExpirationTodayArgs == {Date(2023, 12, 31), Date(2024, 2, 29), Date(2024, 3, 1)}
\* the numbers written in the model's texts: years, months and days around
\* today's, and numbers that name no month or no day
ExpYears == {0, 2023, 2024, 2025}
ExpMonths == {0, 1, 2, 3, 12, 13}
ExpDays == {0, 1, 28, 29, 30, 31, 32}
\* exp_date arguments: written dates (with the numbers and the style they were
\* written from), and texts that are no dates
ExpDateArgs ==
    {[arg |-> Str(DateText(y, m, d, style)), written |-> TRUE,
      year |-> y, month |-> m, day |-> d, style |-> style] :
        y \in ExpYears, m \in ExpMonths, d \in ExpDays, style \in DateStyles}
    \cup {[arg |-> a, written |-> FALSE, year |-> 0, month |-> 0, day |-> 0,
           style |-> "none"] :
             a \in {NoneArg, Str(<<>>), Str(<<" ">>),
                    Str(<<"n", "o", "t", "-", "a", "-", "d", "a", "t", "e">>)}}
ExpirationArgs ==
    [fn : {"validate_expiration_date"}, today : ExpirationTodayArgs,
     exp_date : ExpDateArgs]

(***************************************************************************)
(* Initial values                                                          *)
(***************************************************************************)
IdleGen == [num_challenges |-> 2, exclude_challenges |-> {}, require_head_turn |-> FALSE]
NoOutcome == [raised |-> FALSE, done |-> FALSE, challenges |-> <<>>, num_challenges |-> 0]
IdleSession == NewSession(2, <<SMILE, BLINK>>)
NoBlinkRet == BlinkNoFaceResult(NewBlinkDetector, "no call made")
NoHeadRet == HeadNoFaceResult(NewHeadPoseDetector, "no call made")
NoBatchRet == [called |-> FALSE]

InitEngineIdle ==
    /\ session = IdleSession
    /\ call = NoCall
    /\ ret = NoRet

InitGenIdle ==
    /\ gen_in = IdleGen
    /\ gen_out = NoOutcome

\* the lazily created detectors, as their constructors leave them
InitTrackers ==
    /\ blink = NewBlinkDetector
    /\ blink_ret = NoBlinkRet
    /\ blink_hist = <<>>
    /\ head = NewHeadPoseDetector
    /\ head_ret = NoHeadRet
    /\ head_hist = <<>>
    /\ caller = "sessionA"
    /\ batch_ret = NoBatchRet

trackerVars == <<blink, blink_ret, blink_hist, head, head_ret, head_hist, caller, batch_ret>>

\* the store as the module leaves it at import, before any call
NoStoreCall == [op |-> "none", session_id |-> 0]
NoStoreRet == [success |-> FALSE, error |-> "no call made"]
InitStoreIdle ==
    /\ sessions = EmptyStore
    /\ now = 0
    /\ created = 0
    /\ store_call = NoStoreCall
    /\ store_ret = NoStoreRet

\* no OCR-service function has been called
NoOcrCall == [fn |-> "none"]
NoOcrResult == [done |-> FALSE]
InitOcrIdle ==
    /\ ocr_in = NoOcrCall
    /\ ocr_out = NoOcrResult

\* everything outside the liveness engine, sessions and trackers
InitRestIdle == InitStoreIdle /\ InitOcrIdle

(***************************************************************************)
(* Specification SpecSession: one ChallengeSession and the calls made on it *)
(***************************************************************************)
InitSession ==
    /\ session \in UNION {ConstructedSessions(a) : a \in ConstructorArgs}
    /\ call = NoCall
    /\ ret = NoRet
    /\ InitGenIdle
    /\ InitTrackers
    /\ InitRestIdle

CompleteChallenge ==
    \E challenge_type \in ChallengeTypeArgs, passed \in BOOLEAN, metadata \in MetadataArgs :
        LET r == complete_challenge(session, challenge_type, passed, metadata)
        IN  /\ session' = r.session
            /\ ret' = r.ret
            /\ call' = [challenge_type |-> challenge_type, passed |-> passed,
                        metadata |-> metadata]
            /\ UNCHANGED <<genVars, trackerVars, storeVars, ocrVars>>

NextSession == CompleteChallenge

SpecSession == InitSession /\ [][NextSession]_vars

(***************************************************************************)
(* Specification SpecGenerate: constructor calls, over all their arguments *)
(***************************************************************************)
InitGenerate ==
    /\ gen_in \in ConstructorArgs
    /\ gen_out = NoOutcome
    /\ InitEngineIdle
    /\ InitTrackers
    /\ InitRestIdle

\* ChallengeSession(num_challenges, exclude_challenges, require_head_turn)
Construct ==
    /\ ~gen_out.done
    /\ LET n == ClampNumChallenges(gen_in.num_challenges)
       IN  IF GenerateRaises(n, gen_in.exclude_challenges, gen_in.require_head_turn)
           THEN gen_out' = [raised |-> TRUE, done |-> TRUE, challenges |-> <<>>,
                            num_challenges |-> n]
           ELSE \E s \in ConstructedSessions(gen_in) :
                    gen_out' = [raised |-> FALSE, done |-> TRUE,
                                challenges |-> s.challenges,
                                num_challenges |-> s.num_challenges]
    /\ UNCHANGED <<gen_in, sessionVars, trackerVars, storeVars, ocrVars>>

NextGenerate == Construct

SpecGenerate == InitGenerate /\ [][NextGenerate]_vars

(***************************************************************************)
(* Specification SpecBlink: two verification sessions stream frames to the  *)
(* blink endpoint (main.py calls check_blink_from_base64 per request)       *)
(***************************************************************************)
BlinkFrames == EyeImages \cup FailingImages

InitBlink == InitEngineIdle /\ InitGenIdle /\ InitTrackers /\ InitRestIdle

CheckBlink ==
    \E sid \in Callers, image \in BlinkFrames, reset_session \in BOOLEAN :
        LET r == check_blink_from_base64(get_blink_detector(sid), image, reset_session)
        IN  /\ Len(blink_hist) < MaxFrames
            /\ blink' = r.detector
            /\ blink_ret' = r.ret
            /\ blink_hist' = IF image.decodes
                             THEN Append(blink_hist, BlinkEvent(image, reset_session))
                             ELSE blink_hist
            /\ caller' = sid
            /\ UNCHANGED <<sessionVars, genVars, headVars, batchVars, storeVars, ocrVars>>

NextBlink == CheckBlink

SpecBlink == InitBlink /\ [][NextBlink]_vars

(***************************************************************************)
(* Specification SpecHead: two verification sessions stream frames to the   *)
(* head-pose endpoint (main.py calls check_head_pose_from_base64)           *)
(***************************************************************************)
HeadFrames == PoseImages \cup FailingImages

InitHead == InitEngineIdle /\ InitGenIdle /\ InitTrackers /\ InitRestIdle

CheckHeadPose ==
    \E sid \in Callers, image \in HeadFrames, reset_session \in BOOLEAN :
        LET r == check_head_pose_from_base64(get_head_pose_detector(sid), image,
                                             reset_session)
        IN  /\ Len(head_hist) < MaxFrames
            /\ head' = r.detector
            /\ head_ret' = r.ret
            /\ head_hist' = IF image.decodes
                            THEN Append(head_hist, HeadEvent(image, reset_session))
                            ELSE head_hist
            /\ caller' = sid
            /\ UNCHANGED <<sessionVars, genVars, blinkVars, batchVars,
                         storeVars, ocrVars>>

NextHead == CheckHeadPose

SpecHead == InitHead /\ [][NextHead]_vars

(***************************************************************************)
(* Specification SpecBatch: one batch validation request                    *)
(***************************************************************************)
InitBatch == InitEngineIdle /\ InitGenIdle /\ InitTrackers /\ InitRestIdle

ValidateBatch ==
    \E sid \in Callers, challenge_results \in BatchArgs :
        LET r == validate_multi_challenge_batch(get_blink_detector(sid),
                                                get_head_pose_detector(sid),
                                                challenge_results)
        IN  /\ ~batch_ret.called
            /\ batch_ret' = r.ret @@ [called |-> TRUE, challenge_results |-> challenge_results]
            /\ blink' = r.blink
            /\ head' = r.head
            /\ blink_hist' = blink_hist \o
                   [k \in 1..Len(r.blink_frames) |-> BlinkEvent(r.blink_frames[k], TRUE)]
            /\ head_hist' = head_hist \o
                   [k \in 1..Len(r.head_frames) |-> HeadEvent(r.head_frames[k], TRUE)]
            /\ caller' = sid
            /\ UNCHANGED <<sessionVars, genVars, blink_ret, head_ret, storeVars, ocrVars>>

NextBatch == ValidateBatch

SpecBatch == InitBatch /\ [][NextBatch]_vars

(***************************************************************************)
(* Specification SpecStore: the session store, its three functions and the  *)
(* clock (main.py calls them per request)                                   *)
(***************************************************************************)
InitStore == InitEngineIdle /\ InitGenIdle /\ InitTrackers /\ InitRestIdle

\* create_challenge_session(num_challenges, exclude_challenges, require_head_turn)
CreateChallengeSession ==
    \E a \in StoreConstructorArgs :
        /\ created < MaxSessions
        /\ created' = created + 1
        /\ store_call' = [op |-> "create_challenge_session", session_id |-> created + 1]
        /\ IF CreateRaises(a)
           THEN /\ sessions' = sessions
                /\ store_ret' = [raised |-> TRUE]
           ELSE \E s \in SessionsCreatedAt(a, created + 1, now) :
                    LET r == create_challenge_session(sessions, s, now)
                    IN  /\ sessions' = r.sessions
                        /\ store_ret' = r.ret
        /\ UNCHANGED <<now, sessionVars, genVars, trackerVars, ocrVars>>

\* complete_session_challenge(session_id, challenge_type, passed, metadata)
CompleteSessionChallenge ==
    \E session_id \in SessionIdArgs, challenge_type \in StoreChallengeTypeArgs,
       passed \in BOOLEAN :
        LET r == complete_session_challenge(sessions, session_id, challenge_type,
                                            passed, None)
        IN  /\ sessions' = r.sessions
            /\ store_ret' = r.ret
            /\ store_call' = [op |-> "complete_session_challenge",
                              session_id |-> session_id]
            /\ UNCHANGED <<now, created, sessionVars, genVars, trackerVars, ocrVars>>

\* get_session(session_id)
GetSession ==
    \E session_id \in SessionIdArgs :
        /\ store_ret' = get_session(sessions, session_id)
        /\ store_call' = [op |-> "get_session", session_id |-> session_id]
        /\ UNCHANGED <<sessions, now, created, sessionVars, genVars, trackerVars, ocrVars>>

\* time passes between two requests
Tick ==
    \E t \in ClockInstants :
        /\ t > now
        /\ now' = t
        /\ UNCHANGED <<sessions, created, store_call, store_ret,
                       sessionVars, genVars, trackerVars, ocrVars>>

NextStore ==
    \/ CreateChallengeSession
    \/ CompleteSessionChallenge
    \/ GetSession
    \/ Tick

SpecStore == InitStore /\ [][NextStore]_vars

(***************************************************************************)
(* Specification SpecValidate: validate_document_number over its arguments  *)
(***************************************************************************)
InitValidate ==
    /\ ocr_in \in ValidateArgs
    /\ ocr_out = NoOcrResult
    /\ InitEngineIdle /\ InitGenIdle /\ InitTrackers /\ InitStoreIdle

ValidateDocumentNumber ==
    /\ ~ocr_out.done
    /\ ocr_out' = validate_document_number(ocr_in.number, ocr_in.country_code)
                     @@ [done |-> TRUE]
    /\ UNCHANGED <<ocr_in, sessionVars, genVars, trackerVars, storeVars>>

NextValidate == ValidateDocumentNumber

SpecValidate == InitValidate /\ [][NextValidate]_vars

(***************************************************************************)
(* Specification SpecDetect: detect_document_type over OCR texts            *)
(***************************************************************************)
InitDetect ==
    /\ ocr_in \in DetectArgs
    /\ ocr_out = NoOcrResult
    /\ InitEngineIdle /\ InitGenIdle /\ InitTrackers /\ InitStoreIdle

DetectDocumentType ==
    /\ ~ocr_out.done
    /\ ocr_out' = detect_document_type(ocr_in.text) @@ [done |-> TRUE]
    /\ UNCHANGED <<ocr_in, sessionVars, genVars, trackerVars, storeVars>>

NextDetect == DetectDocumentType

SpecDetect == InitDetect /\ [][NextDetect]_vars

(***************************************************************************)
(* Specification SpecConfidence: calculate_confidence over its arguments    *)
(***************************************************************************)
InitConfidence ==
    /\ ocr_in \in ConfidenceArgs
    /\ ocr_out = NoOcrResult
    /\ InitEngineIdle /\ InitGenIdle /\ InitTrackers /\ InitStoreIdle

CalculateConfidence ==
    /\ ~ocr_out.done
    /\ ocr_out' = [done |-> TRUE,
                   score |-> calculate_confidence(ocr_in.text_length,
                                                  ocr_in.fields_extracted,
                                                  ocr_in.ocr_avg_confidence)]
    /\ UNCHANGED <<ocr_in, sessionVars, genVars, trackerVars, storeVars>>

NextConfidence == CalculateConfidence

SpecConfidence == InitConfidence /\ [][NextConfidence]_vars

(***************************************************************************)
(* Specification SpecDob: validate_dob over dates of birth                  *)
(***************************************************************************)
InitDob ==
    /\ ocr_in \in DobArgs
    /\ ocr_out = NoOcrResult
    /\ InitEngineIdle /\ InitGenIdle /\ InitTrackers /\ InitStoreIdle

ValidateDob ==
    /\ ~ocr_out.done
    /\ ocr_out' = [done |-> TRUE, issues |-> validate_dob(ocr_in.dob, ocr_in.today)]
    /\ UNCHANGED <<ocr_in, sessionVars, genVars, trackerVars, storeVars>>

NextDob == ValidateDob

SpecDob == InitDob /\ [][NextDob]_vars

(***************************************************************************)
(* Specification SpecExpiration: validate_expiration_date over texts        *)
(***************************************************************************)
InitExpiration ==
    /\ ocr_in \in ExpirationArgs
    /\ ocr_out = NoOcrResult
    /\ InitEngineIdle /\ InitGenIdle /\ InitTrackers /\ InitStoreIdle

ValidateExpirationDate ==
    /\ ~ocr_out.done
    /\ ocr_out' = [done |-> TRUE,
                   issues |-> validate_expiration_date(ocr_in.exp_date.arg, ocr_in.today)]
    /\ UNCHANGED <<ocr_in, sessionVars, genVars, trackerVars, storeVars>>

NextExpiration == ValidateExpirationDate

SpecExpiration == InitExpiration /\ [][NextExpiration]_vars

(***************************************************************************)
(* Claims about ChallengeSession.complete_challenge (under SpecSession)     *)
(***************************************************************************)
\* the step is a complete_challenge call whose type is not the expected one,
\* made on a session that is not complete
WrongTypeCall ==
    /\ ~session.is_complete
    /\ call'.challenge_type # session.challenges[session.current_index + 1]

\* the log follows the challenge list: entry i is of type challenges[i]
LogFollowsChallenges ==
    /\ session.current_index = Len(session.completed_challenges)
    /\ session.current_index <= Len(session.challenges)
    /\ \A i \in 1..Len(session.completed_challenges) :
          session.completed_challenges[i].challenge_type = session.challenges[i]

\* C1: on a session that is not complete, complete_challenge with a type other
\* than challenges[current_index] returns success=false and leaves the whole
\* session (current_index, completed_challenges, is_complete, is_passed) as it
\* was; and in every state the log is a prefix of the challenge list in order,
\* so no call sequence skips or reorders a challenge.
C1_WrongTypeRejected ==
    /\ []LogFollowsChallenges
    /\ [][WrongTypeCall => (ret'.success = FALSE /\ session' = session)]_vars

\* a wrong-type call was rejected in the middle of a session
C1_Witness ==
    /\ ~ret.success
    /\ ret.error = "Expected challenge"
    /\ call.challenge_type \in ChallengeType
    /\ session.current_index = 1
    /\ ~session.is_complete

\* the conjunction of passed over every challenge of the session, read off the log
EveryChallengePassed ==
    \A i \in 1..Len(session.challenges) :
        /\ i <= Len(session.completed_challenges)
        /\ session.completed_challenges[i].challenge_type = session.challenges[i]
        /\ session.completed_challenges[i].passed

\* C2: when a session is complete, is_passed is true exactly when every
\* challenge of the session was completed with passed=true; the completing
\* call returns that value as session_passed.
C2_PassedIsConjunction ==
    session.is_complete =>
        /\ session.is_passed = EveryChallengePassed
        /\ (ret.success => ret.session_complete /\ ret.session_passed = session.is_passed)

\* a completed session that failed although its last challenge passed
C2_Witness ==
    /\ session.is_complete
    /\ ~session.is_passed
    /\ Len(session.challenges) = 3
    /\ session.completed_challenges[3].passed
    /\ session.completed_challenges[2].passed
    /\ ~session.completed_challenges[1].passed

\* C3: once a session is complete every complete_challenge call, whatever its
\* challenge_type and passed, returns success=false and changes nothing of the
\* session (log, current_index, is_complete, is_passed).
C3_CompleteIsFinal ==
    [][session.is_complete => (ret'.success = FALSE /\ session' = session)]_vars

\* a passed session answered a later failing completion with a rejection
C3_Witness ==
    /\ session.is_complete
    /\ session.is_passed
    /\ ~ret.success
    /\ ret.error = "Session already complete"
    /\ call.challenge_type = session.challenges[1]
    /\ ~call.passed

\* C22: in every reachable session state is_complete is true if and only if
\* current_index equals len(challenges), and current_index never exceeds
\* len(challenges).
C22_CompleteIffAtEnd ==
    /\ session.is_complete <=> (session.current_index = Len(session.challenges))
    /\ session.current_index <= Len(session.challenges)

\* a session of three challenges that was completed
C22_Witness ==
    /\ session.is_complete
    /\ Len(session.challenges) = 3
    /\ session.current_index = 3
    /\ ret.success

\* the step changes the log: it appends one entry, is reported as accepted
\* and moves current_index by one
AppendsOneEntry ==
    /\ Len(session'.completed_challenges) = Len(session.completed_challenges) + 1
    /\ SubSeq(session'.completed_challenges, 1, Len(session.completed_challenges))
          = session.completed_challenges
    /\ ret'.success
    /\ session'.current_index = session.current_index + 1

\* C23: over any sequence of complete_challenge calls current_index never
\* decreases; the log changes only by an accepted call appending one entry
\* (the entries before it stay as they were) and a call that is not accepted
\* leaves the log alone; so in every state current_index is the number of
\* logged entries and the i-th logged entry has the type challenges[i].
C23_LogAppendOnly ==
    /\ [](/\ session.current_index = Len(session.completed_challenges)
          /\ \A i \in 1..Len(session.completed_challenges) :
                /\ i <= Len(session.challenges)
                /\ session.completed_challenges[i].challenge_type = session.challenges[i])
    /\ [][/\ session'.current_index >= session.current_index
          /\ IF session'.completed_challenges # session.completed_challenges
             THEN AppendsOneEntry
             ELSE ~ret'.success]_vars

\* two entries were logged, the first one failed, and the call after them was
\* rejected without touching the log
C23_Witness ==
    /\ Len(session.completed_challenges) = 2
    /\ ~session.completed_challenges[1].passed
    /\ session.completed_challenges[2].passed
    /\ session.current_index = 2
    /\ Len(session.challenges) = 4
    /\ ~ret.success

\* C28: is_passed is never true while is_complete is false, and a call that
\* is accepted without completing the session returns session_passed = None.
C28_NotPassedBeforeComplete ==
    /\ ~session.is_complete => ~session.is_passed
    /\ (ret.success /\ ~session.is_complete) =>
          (~ret.session_complete /\ ret.session_passed = None)

\* every challenge so far was passed and the session is still open
C28_Witness ==
    /\ ~session.is_complete
    /\ ~session.is_passed
    /\ Len(session.challenges) = 3
    /\ session.current_index = 2
    /\ \A i \in 1..2 : session.completed_challenges[i].passed
    /\ ret.success
    /\ ret.session_passed = None

\* the step is a call that names the challenge at the current index
NamesCurrentChallenge ==
    /\ session.current_index < Len(session.challenges)
    /\ call'.challenge_type = session.challenges[session.current_index + 1]

\* C29: every accepted call moves current_index by exactly one and no other
\* call moves it, and current_index never exceeds len(challenges): so the
\* accepted completions of a session are current_index many and never more
\* than len(challenges). A call that names the challenge at the current index
\* is accepted, and it completes the session exactly when it is the
\* len(challenges)-th accepted call.
C29_AcceptedCallsBounded ==
    /\ [](session.current_index <= Len(session.challenges))
    /\ [][/\ session'.current_index =
                session.current_index + (IF ret'.success THEN 1 ELSE 0)
          /\ NamesCurrentChallenge =>
                /\ ret'.success
                /\ ret'.session_complete = session'.is_complete
                /\ session'.is_complete <=>
                      (session.current_index + 1 = Len(session.challenges))]_vars

\* a session of four challenges completed by its fourth accepted call
C29_Witness ==
    /\ Len(session.challenges) = 4
    /\ session.current_index = 4
    /\ session.is_complete
    /\ ret.success
    /\ ret.session_complete

(***************************************************************************)
(* Claims about the constructor (under SpecGenerate)                        *)
(***************************************************************************)
\* C9 (as claimed): with require_head_turn=true every constructor call returns
\* without raising, and the generated list holds turn_left or turn_right.
C9_HeadTurnAlwaysIncluded ==
    (gen_out.done /\ gen_in.require_head_turn) =>
        /\ ~gen_out.raised
        /\ (TURN_LEFT \in Range(gen_out.challenges) \/ TURN_RIGHT \in Range(gen_out.challenges))

\* num_challenges clamped to 2..4, computed without the model's clamp
ClampedArg == IF gen_in.num_challenges < 2 THEN 2
              ELSE IF gen_in.num_challenges > 4 THEN 4 ELSE gen_in.num_challenges

NotExcluded == {c \in ChallengeType : c \notin gen_in.exclude_challenges}

\* C11: a generated list holds no type the caller excluded, unless the
\* exclusion leaves fewer types than the clamped num_challenges; then the list
\* is drawn from all four types.
C11_ExclusionHonoured ==
    (gen_out.done /\ ~gen_out.raised) =>
        IF Cardinality(NotExcluded) >= ClampedArg
        THEN \A i \in 1..Len(gen_out.challenges) :
                 gen_out.challenges[i] \notin gen_in.exclude_challenges
        ELSE Range(gen_out.challenges) \subseteq ChallengeType

\* an exclusion that leaves just enough types was honoured by a generated list
C11_Witness ==
    /\ gen_out.done
    /\ ~gen_out.raised
    /\ gen_in.exclude_challenges = {BLINK, TURN_RIGHT}
    /\ gen_in.num_challenges = 2
    /\ gen_in.require_head_turn
    /\ Range(gen_out.challenges) = {SMILE, TURN_LEFT}

(***************************************************************************)
(* Claims about the trackers (under SpecBlink, SpecHead, SpecBatch)         *)
(***************************************************************************)
\* C4 (as claimed): a request made for one verification session never changes
\* the blink detector or the head-pose detector that serves another session.
C4_TrackersIsolated ==
    [][\A s \in Callers :
          s # caller' =>
              /\ get_blink_detector(s)' = get_blink_detector(s)
              /\ get_head_pose_detector(s)' = get_head_pose_detector(s)]_vars

Last(h) == h[Len(h)]
Front(h) == SubSeq(h, 1, Len(h) - 1)

RECURSIVE ClosedRun(_)
\* the number of closed-eye frames that end the frame sequence h: counted back
\* to the last open-eye frame or reset(), frames without a detected face
\* (which the detector does not process further) left out
ClosedRun(h) ==
    IF h = <<>> THEN 0
    ELSE IF Last(h).kind = "open" THEN 0
    ELSE LET before == IF Last(h).reset THEN 0 ELSE ClosedRun(Front(h))
         IN  IF Last(h).kind = "closed" THEN before + 1 ELSE before

\* the last frame of h is an open-eye frame that ends a run of at least 2
\* closed-eye frames
EndsBlink(h) ==
    /\ h # <<>>
    /\ Last(h).kind = "open"
    /\ ~Last(h).reset
    /\ ClosedRun(Front(h)) >= 2

\* the step processed a frame
BlinkFrameStep == blink_hist' # blink_hist

OnlyShortClosedRuns(h) == \A k \in 1..Len(h) : ClosedRun(SubSeq(h, 1, k)) < 2

HeadFrameStep == head_hist' # head_hist
HeadResetStep == HeadFrameStep /\ Last(head_hist').reset

\* C7: once a turn direction is confirmed its flag stays true in the detector
\* over every step that does not call reset(), and every later frame (forward,
\* opposite, no face) reports it as completed; is_turning_left/right report
\* the current frame only.
C7_TurnConfirmedSticky ==
    [][/\ (head.turn_detected_left /\ ~HeadResetStep) => head'.turn_detected_left
       /\ (head.turn_detected_right /\ ~HeadResetStep) => head'.turn_detected_right
       /\ HeadFrameStep =>
             /\ head_ret'.left_turn_completed = head'.turn_detected_left
             /\ head_ret'.right_turn_completed = head'.turn_detected_right
             /\ head_ret'.is_turning_left = (Last(head_hist').kind = "left")
             /\ head_ret'.is_turning_right = (Last(head_hist').kind = "right")]_vars

\* left, left, right, no face: the left turn is still reported as completed
C7_Witness ==
    /\ Len(head_hist) = 4
    /\ \A k \in 1..4 : ~head_hist[k].reset
    /\ head_hist[1].kind = "left"
    /\ head_hist[2].kind = "left"
    /\ head_hist[3].kind = "right"
    /\ head_hist[4].kind = "noface"
    /\ head.turn_detected_left
    /\ head_ret.left_turn_completed
    /\ ~head_ret.is_turning_left

\* the step processed a frame in which no face was detected
BlinkNoFaceStep == BlinkFrameStep /\ Last(blink_hist').kind = "noface"

\* C14: a frame with no detected face changes no tracker state:
\* eye_closed_frames, was_eye_closed and blink_count are after the frame what
\* they were before it (what reset() left, when the request asked for a reset
\* first), and the result has face_detected=false, ear_value=0 and
\* blink_detected=false.
C14_BlinkNoFaceNoOp ==
    [][BlinkNoFaceStep =>
          /\ IF Last(blink_hist').reset
             THEN /\ blink'.eye_closed_frames = 0
                  /\ blink'.was_eye_closed = FALSE
                  /\ blink'.blink_count = 0
             ELSE /\ blink'.eye_closed_frames = blink.eye_closed_frames
                  /\ blink'.was_eye_closed = blink.was_eye_closed
                  /\ blink'.blink_count = blink.blink_count
          /\ blink_ret'.face_detected = FALSE
          /\ blink_ret'.ear_value = 0
          /\ blink_ret'.blink_detected = FALSE]_vars

\* closed, closed, then no face: the closed run and was_eye_closed are kept
C14_Witness ==
    /\ Len(blink_hist) = 3
    /\ \A k \in 1..3 : ~blink_hist[k].reset
    /\ blink_hist[1].kind = "closed"
    /\ blink_hist[2].kind = "closed"
    /\ blink_hist[3].kind = "noface"
    /\ blink.eye_closed_frames = 2
    /\ blink.was_eye_closed
    /\ ~blink_ret.face_detected

\* the frame sequence h ends with a closed-eye frame, a frame without a face,
\* another closed-eye frame and an open-eye frame (no reset() after the first)
ClosedNoFaceClosedOpen(h) ==
    /\ Len(h) >= 4
    /\ h[Len(h) - 3].kind = "closed"
    /\ h[Len(h) - 2].kind = "noface"
    /\ h[Len(h) - 1].kind = "closed"
    /\ h[Len(h)].kind = "open"
    /\ \A k \in (Len(h) - 2)..Len(h) : ~h[k].reset

\* eye_closed_frames before the frame of the step is processed: what reset()
\* leaves when the request asks for it
ClosedFramesBefore == IF Last(blink_hist').reset THEN 0 ELSE blink.eye_closed_frames

HeadNoFaceStep == HeadFrameStep /\ Last(head_hist').kind = "noface"

\* the frame sequence h ends with a turning frame to one side, a no-face frame
\* and another turning frame to the same side (no reset() after the first)
TurnNoFaceTurn(h, side) ==
    /\ Len(h) >= 3
    /\ h[Len(h) - 2].kind = side
    /\ h[Len(h) - 1].kind = "noface"
    /\ ~h[Len(h) - 1].reset
    /\ h[Len(h)].kind = side
    /\ ~h[Len(h)].reset

\* C15: a frame with no detected face leaves both turn counters and both
\* confirmed flags as they were before it (as reset() left them, when the
\* request asked for a reset first); so a turning frame, a no-face frame and
\* another turning frame to the same side confirm the turn.
C15_HeadNoFaceNoOp ==
    [][/\ HeadNoFaceStep =>
             IF Last(head_hist').reset
             THEN /\ head'.left_turn_frames = 0
                  /\ head'.right_turn_frames = 0
                  /\ ~head'.turn_detected_left
                  /\ ~head'.turn_detected_right
             ELSE /\ head'.left_turn_frames = head.left_turn_frames
                  /\ head'.right_turn_frames = head.right_turn_frames
                  /\ head'.turn_detected_left = head.turn_detected_left
                  /\ head'.turn_detected_right = head.turn_detected_right
       /\ (HeadFrameStep /\ TurnNoFaceTurn(head_hist', "left")) =>
             head'.turn_detected_left /\ head_ret'.left_turn_completed
       /\ (HeadFrameStep /\ TurnNoFaceTurn(head_hist', "right")) =>
             head'.turn_detected_right /\ head_ret'.right_turn_completed]_vars

\* right, no face, right: the right turn is confirmed by the third frame
C15_Witness ==
    /\ Len(head_hist) = 3
    /\ \A k \in 1..3 : ~head_hist[k].reset
    /\ head_hist[1].kind = "right"
    /\ head_hist[2].kind = "noface"
    /\ head_hist[3].kind = "right"
    /\ head.right_turn_frames = 2
    /\ head.turn_detected_right
    /\ head_ret.right_turn_completed

\* the frame sequence h ends with a turning frame to one side, a face-detected
\* frame that does not turn to that side, and another turning frame to the side
\* (no reset() after the first)
TurnOtherTurn(h, side) ==
    /\ Len(h) >= 3
    /\ h[Len(h) - 2].kind = side
    /\ h[Len(h) - 1].kind \in {"forward", "left", "right"} \ {side}
    /\ ~h[Len(h) - 1].reset
    /\ h[Len(h)].kind = side
    /\ ~h[Len(h)].reset

\* the turn counters before the frame of the step is processed: what reset()
\* leaves when the request asks for it
LeftFramesBefore == IF Last(head_hist').reset THEN 0 ELSE head.left_turn_frames
RightFramesBefore == IF Last(head_hist').reset THEN 0 ELSE head.right_turn_frames

\* C24: a frame turning one way increments that direction's counter and sets
\* the other to 0, and a face-detected frame turning neither way sets both to
\* 0; a direction becomes confirmed only on a frame turning that way whose
\* counter reaches 2; so two turning frames to one side separated by a forward
\* or opposite frame leave the counter at 1 and confirm nothing.
C24_TurnNeedsConsecutiveFrames ==
    [][HeadFrameStep =>
         /\ Last(head_hist').kind = "left" =>
               /\ head'.left_turn_frames = LeftFramesBefore + 1
               /\ head'.right_turn_frames = 0
         /\ Last(head_hist').kind = "right" =>
               /\ head'.right_turn_frames = RightFramesBefore + 1
               /\ head'.left_turn_frames = 0
         /\ Last(head_hist').kind = "forward" =>
               /\ head'.left_turn_frames = 0
               /\ head'.right_turn_frames = 0
         /\ (head'.turn_detected_left /\ ~head.turn_detected_left) =>
               /\ Last(head_hist').kind = "left"
               /\ head'.left_turn_frames = CONSECUTIVE_FRAMES_FOR_TURN
         /\ (head'.turn_detected_right /\ ~head.turn_detected_right) =>
               /\ Last(head_hist').kind = "right"
               /\ head'.right_turn_frames = CONSECUTIVE_FRAMES_FOR_TURN
         /\ TurnOtherTurn(head_hist', "left") =>
               /\ head'.left_turn_frames = 1
               /\ head'.turn_detected_left = head.turn_detected_left
         /\ TurnOtherTurn(head_hist', "right") =>
               /\ head'.right_turn_frames = 1
               /\ head'.turn_detected_right = head.turn_detected_right]_vars

\* left, forward, left does not confirm; the next left frame does
C24_Witness ==
    /\ Len(head_hist) = 4
    /\ \A k \in 1..4 : ~head_hist[k].reset
    /\ head_hist[1].kind = "left"
    /\ head_hist[2].kind = "forward"
    /\ head_hist[3].kind = "left"
    /\ head_hist[4].kind = "left"
    /\ head.left_turn_frames = 2
    /\ head.turn_detected_left
    /\ ~head.turn_detected_right

\* C8 (as claimed): a batch turn entry whose frame shows a face passes exactly
\* when detect_head_turn's convention says so: turn_left when yaw > 0.15,
\* turn_right when yaw < -0.15 (positive yaw = the user's left).
C8_BatchTurnConvention ==
    batch_ret.called =>
        \A k \in 1..Len(batch_ret.results) :
            LET e == batch_ret.challenge_results[k]
            IN  (/\ e.challenge_type \in {TURN_LEFT, TURN_RIGHT}
                 /\ e.image.present /\ e.image.decodes /\ e.image.detect = "face")
                => batch_ret.results[k].passed =
                       DetectHeadTurn(Round3(e.image.yaw),
                                      IF e.challenge_type = TURN_LEFT THEN "left" ELSE "right",
                                      TURN_BATCH_THRESHOLD)

(***************************************************************************)
(* Claims about the session store (under SpecStore)                         *)
(***************************************************************************)
\* the step is a call of the store function op (the clock stands still in a call)
StoreCallStep(op) == now' = now /\ store_call'.op = op

\* C12: complete_session_challenge with a session id that is not in the store
\* returns success=false with an error string, and creates, modifies and
\* removes no session.
C12_UnknownSessionRejected ==
    [][(/\ StoreCallStep("complete_session_challenge")
        /\ store_call'.session_id \notin DOMAIN sessions)
       => /\ store_ret'.success = FALSE
          /\ "error" \in DOMAIN store_ret'
          /\ sessions' = sessions]_vars

\* a call named a session id handed out earlier that the store no longer holds,
\* while another session was stored
C12_Witness ==
    /\ store_call.op = "complete_session_challenge"
    /\ store_call.session_id \notin DOMAIN sessions
    /\ store_call.session_id <= created
    /\ store_ret = SessionNotFound
    /\ DOMAIN sessions # {}

\* C13 (as claimed): every create_challenge_session call leaves no session
\* created more than 600 s ago in the store and removes none younger than
\* that; no other step removes a session.
C13_SweepOnCreate ==
    [][IF StoreCallStep("create_challenge_session")
       THEN /\ \A sid \in DOMAIN sessions' : now' - sessions'[sid].created_at <= 600
            /\ \A sid \in DOMAIN sessions :
                  now - sessions[sid].created_at < 600 => sid \in DOMAIN sessions'
       ELSE DOMAIN sessions \subseteq DOMAIN sessions']_vars

\* the session the step's call names is in the store and was created more
\* than 600 s ago
NamesExpiredSession ==
    /\ store_call'.session_id \in DOMAIN sessions
    /\ now - sessions[store_call'.session_id].created_at > 600

\* C26 (as claimed): complete_session_challenge on a session created more than
\* 600 s ago returns success=false with "Session not found or expired" and
\* records nothing, whether or not a later create_challenge_session call has
\* swept the store.
C26_ExpiredSessionRejected ==
    [][(StoreCallStep("complete_session_challenge") /\ NamesExpiredSession)
       => /\ store_ret' = SessionNotFound
          /\ sessions' = sessions]_vars

(***************************************************************************)
(* Claims about batch validation (under SpecBatch)                          *)
(***************************************************************************)
\* processing the entry raises: its image cannot be decoded, or the detector
\* raises on it
ProcessingRaises(entry) ==
    /\ entry.image.present
    /\ (~entry.image.decodes \/ entry.image.detect = "raises")

\* the entry lacks a field, names an unknown type, or raises while processed
MustFail(entry) ==
    \/ entry.challenge_type = None
    \/ ~entry.image.present
    \/ entry.challenge_type \notin ChallengeType
    \/ ProcessingRaises(entry)

\* C16 (as claimed): the results list has one record per input entry, in
\* order; all_passed is true exactly when every record is passed; an entry
\* with a missing challenge_type or image, an unknown type or a processing
\* exception is recorded as failed (and so forces all_passed=false).
C16_BatchAllPassed ==
    batch_ret.called =>
        LET entries == batch_ret.challenge_results
            results == batch_ret.results
        IN  /\ Len(results) = Len(entries)
            /\ \A i \in 1..Len(results) :
                  /\ results[i].index = i - 1
                  /\ results[i].challenge_type = entries[i].challenge_type
                  /\ MustFail(entries[i]) => ~results[i].passed
            /\ batch_ret.all_passed = (\A i \in 1..Len(results) : results[i].passed)

\* C27 (as claimed): a blink entry is recorded as passed only if its image
\* was decoded and a face was detected in it.
C27_BlinkPassNeedsFace ==
    batch_ret.called =>
        \A i \in 1..Len(batch_ret.results) :
            (/\ batch_ret.challenge_results[i].challenge_type = BLINK
             /\ batch_ret.results[i].passed)
            => /\ batch_ret.challenge_results[i].image.present
               /\ batch_ret.challenge_results[i].image.decodes
               /\ batch_ret.challenge_results[i].image.detect = "face"

(***************************************************************************)
(* Claims about validate_document_number (under SpecValidate)               *)
(***************************************************************************)
\* no country code was supplied
NoCountryCode == ocr_in.country_code = None \/ ocr_in.country_code = ""

\* the country has no validator module: no attribute of its stdnum package is
\* named in the priority list and has validate() (or the code is no country)
NoValidatorModule ==
    /\ ~NoCountryCode
    /\ \/ ocr_in.country_code \notin DOMAIN Iso3166
       \/ \A m \in StdnumModules[Iso3166[ocr_in.country_code].alpha2] :
             ~m.has_validate \/ m.name \notin Range(_VALIDATOR_MODULE_PRIORITY)

\* C17 (as claimed): whenever no country code is supplied or the country has
\* no discoverable validator module, the result has is_valid=true for every
\* document number, with validation_unavailable_for_country in the no-module
\* case.
C17_UnvalidatableAlwaysPasses ==
    (ocr_out.done /\ (NoCountryCode \/ NoValidatorModule)) =>
        /\ ocr_out.is_valid
        /\ NoValidatorModule => ocr_out.error_code = "validation_unavailable_for_country"

\* C17 (amended): the same, for every document number that is not missing
\* (None or the empty string), which is rejected before the country is looked at.
C17_UnvalidatablePassesIfPresent ==
    (/\ ocr_out.done
     /\ ocr_in.number.text # None /\ ocr_in.number.text # ""
     /\ (NoCountryCode \/ NoValidatorModule)) =>
        /\ ocr_out.is_valid
        /\ NoValidatorModule => ocr_out.error_code = "validation_unavailable_for_country"
        /\ NoCountryCode => ocr_out.error_code = None

\* a number a validator would reject passes for a country without a validator
C17_Witness ==
    /\ ocr_out.done
    /\ ocr_in.country_code = "ZWE"
    /\ ocr_in.number.verdict = "InvalidChecksum"
    /\ ocr_out.is_valid
    /\ ocr_out.error_code = "validation_unavailable_for_country"

(***************************************************************************)
(* Claims about detect_document_type (under SpecDetect)                     *)
(***************************************************************************)
\* the letters a..z
LowerLetters ==
    {"a", "b", "c", "d", "e", "f", "g", "h", "i", "j", "k", "l", "m", "n",
    "o", "p", "q", "r", "s", "t", "u", "v", "w", "x", "y", "z"}

\* the MRZ passport prefix occurs in the text: P< and three letters A-Z, in
\* either case
HasMrzPrefix(text) ==
    \E i \in 1..(Len(text) - 4) :
        /\ text[i] \in {"P", "p"}
        /\ text[i + 1] = "<"
        /\ \A j \in (i + 2)..(i + 4) : text[j] \in Letters \cup LowerLetters

\* C18: a text in which the MRZ passport prefix occurs is classified as
\* (PASSPORT, 1.0), however many national-ID or driver's-license markers it
\* holds.
C18_MrzFastPathWins ==
    (ocr_out.done /\ HasMrzPrefix(ocr_in.text)) =>
        /\ ocr_out.doc_type = PASSPORT
        /\ FractionEq(ocr_out.confidence, Fraction(1, 1))

\* "JCE 12345678ZP<DNI": three national-ID markers against one passport marker
C18_Witness ==
    /\ ocr_out.done
    /\ ocr_in.text = <<"J", "C", "E", " ", "1", "2", "3", "4", "5", "6", "7", "8", "Z">> \o <<"P", "<">>
                        \o <<"D", "N", "I">>
    /\ ocr_out.doc_type = PASSPORT

\* the place of a document type in the fixed order of the tie-break
TieBreakRank(doc_type) ==
    CASE doc_type = NATIONAL_ID -> 1
      [] doc_type = PASSPORT -> 2
      [] doc_type = DRIVERS_LICENSE -> 3

\* how many markers of a type match the text of the call
Matches(doc_type) == Score(doc_type, Upper(ocr_in.text))

\* C25: for a text without the MRZ prefix the result is (UNKNOWN, 0.0) exactly
\* when no marker of any type matches; otherwise it is a type with the most
\* matching markers, every type before it in the order NATIONAL_ID, PASSPORT,
\* DRIVERS_LICENSE having strictly fewer, with confidence its matches over the
\* number of its patterns, which lies in (0, 1].
C25_MostMarkersWins ==
    (ocr_out.done /\ ~HasMrzPrefix(ocr_in.text)) =>
        LET types == {NATIONAL_ID, PASSPORT, DRIVERS_LICENSE}
            matches == [t \in types |-> Matches(t)]
        IN  IF \A t \in types : matches[t] = 0
            THEN /\ ocr_out.doc_type = UNKNOWN
                 /\ ocr_out.confidence.num = 0
            ELSE /\ ocr_out.doc_type \in types
                 /\ \A t \in types :
                       /\ matches[t] <= matches[ocr_out.doc_type]
                       /\ TieBreakRank(t) < TieBreakRank(ocr_out.doc_type)
                             => matches[t] < matches[ocr_out.doc_type]
                 /\ ocr_out.confidence.num = matches[ocr_out.doc_type]
                 /\ ocr_out.confidence.den =
                       (CASE ocr_out.doc_type = NATIONAL_ID -> 11
                          [] ocr_out.doc_type = PASSPORT -> 6
                          [] ocr_out.doc_type = DRIVERS_LICENSE -> 7)
                 /\ 0 < ocr_out.confidence.num
                 /\ ocr_out.confidence.num <= ocr_out.confidence.den

\* "PASSPORTCATEGORY": one passport marker against one license marker
C25_Witness ==
    /\ ocr_out.done
    /\ ocr_in.text = <<"P", "A", "S", "S", "P", "O", "R", "T">>
                        \o <<"C", "A", "T", "E", "G", "O", "R", "Y">>
    /\ Matches(PASSPORT) = 1
    /\ Matches(DRIVERS_LICENSE) = 1
    /\ ocr_out.doc_type = PASSPORT
    /\ ocr_out.confidence = Fraction(1, 6)

(***************************************************************************)
(* Claims about calculate_confidence (under SpecConfidence)                 *)
(***************************************************************************)
\* C19: the score lies in [0, 1], and raising text_length, fields_extracted
\* or ocr_avg_confidence alone never lowers it, also far above the caps.
C19_ConfidenceMonotoneBounded ==
    ocr_out.done =>
        /\ 0 <= ocr_out.score /\ ocr_out.score <= 1000
        /\ \A t \in TextLengthArgs :
              t >= ocr_in.text_length =>
                 calculate_confidence(t, ocr_in.fields_extracted,
                                      ocr_in.ocr_avg_confidence) >= ocr_out.score
        /\ \A f \in FieldsArgs :
              f >= ocr_in.fields_extracted =>
                 calculate_confidence(ocr_in.text_length, f,
                                      ocr_in.ocr_avg_confidence) >= ocr_out.score
        /\ \A c \in OcrConfidenceArgs :
              c >= ocr_in.ocr_avg_confidence =>
                 calculate_confidence(ocr_in.text_length, ocr_in.fields_extracted,
                                      c) >= ocr_out.score

\* every signal far above its cap: the score is exactly 1
C19_Witness ==
    /\ ocr_out.done
    /\ ocr_in.text_length = 10000
    /\ ocr_in.fields_extracted = 100
    /\ ocr_in.ocr_avg_confidence = 1000
    /\ ocr_out.score = 1000

(***************************************************************************)
(* Claims about validate_dob (under SpecDob)                                *)
(***************************************************************************)
\* days since birth
DaysSinceBirth == ocr_in.today - ocr_in.dob.day

\* C20: for a parseable date of birth, with age the floor of days-since-birth
\* over 365 (the a with 365a <= days < 365(a+1)): the only issue is
\* invalid_date_of_birth exactly when age < 0 or age > 150, minor_age_detected
\* exactly when 0 <= age < 18, and there is no issue otherwise.
C20_DobAgeBands ==
    (ocr_out.done /\ ocr_in.dob.parses) =>
        \E age \in -11..201 :
            /\ 365 * age <= DaysSinceBirth
            /\ DaysSinceBirth < 365 * (age + 1)
            /\ ocr_out.issues =
                  (IF age < 0 \/ age > 150 THEN <<"invalid_date_of_birth">>
                   ELSE IF age < 18 THEN <<"minor_age_detected">>
                   ELSE <<>>)

\* a birth date exactly 18 * 365 days ago is accepted as adult
C20_Witness ==
    /\ ocr_out.done
    /\ ocr_in.dob.parses
    /\ DaysSinceBirth = 18 * 365
    /\ ocr_out.issues = <<>>

(***************************************************************************)
(* Claims about validate_expiration_date (under SpecExpiration)             *)
(***************************************************************************)
\* the numbers of the written input name a day of the calendar
NamesCalendarDay(e) ==
    /\ e.year >= 1
    /\ e.month \in 1..12
    /\ e.day >= 1
    /\ e.day <= (CASE e.month = 2 ->
                         IF e.year % 4 = 0 /\ (e.year % 100 # 0 \/ e.year % 400 = 0)
                         THEN 29 ELSE 28
                   [] e.month \in {4, 6, 9, 11} -> 30
                   [] OTHER -> 31)

\* the input is a date in the form %Y-%m-%d (with or without leading zeros)
IsParseable(e) ==
    e.written /\ e.style \in {"iso", "unpadded"} /\ NamesCalendarDay(e)

\* a count of the days up to a date, months taken as 31 days: it orders dates
\* as the calendar does
DayCount(year, month, day) == (year * 12 + month) * 31 + day

====
